---- MODULE Spec2Model ----
(***************************************************************************)
(* A model of drivers/gpu/drm/i915/gvt/kvmgt.c: the guest-page DMA cache   *)
(* of one vGPU (two red-black trees over shared struct gvt_dma objects,    *)
(* keyed by gfn and by dma address) and the write-protection table of its  *)
(* guest (a hash table of struct kvmgt_pgfn).                              *)
(*                                                                         *)
(* Every function that takes vdev.cache_lock is one atomic action per      *)
(* critical section; gvt_cache_destroy, which drops the lock between the   *)
(* iterations of its loop, is one action per iteration.  The collaborators *)
(* (vfio pinning, the DMA API, the allocator, KVM page tracking) are       *)
(* nondeterministic inputs of the actions and plain counters of what is    *)
(* currently pinned, mapped or tracked.                                    *)
(***************************************************************************)
EXTENDS Integers, Sequences, FiniteSets, TLC

(* ------------------------------ bounds --------------------------------- *)
\* guest frame numbers are 0..MaxGfn
MaxGfn == 1
\* dma addresses the DMA API hands out are 1..MaxDma
MaxDma == 2
\* kref_get is taken only below this count
MaxRef == 2
\* struct gvt_dma objects the allocator can hold at once for one gfn
MaxObj == 2
\* pages vfio lets the device hold pinned at once
MaxPins == 2
\* KVM write-track count per gfn that the model lets pile up
MaxTrack == 2
\* pages of the largest memory slot
MaxSlotPages == 2
\* guests (struct kvm) on the host are 1..MaxKvm
MaxKvm == 1
\* opens of the device file that vfio holds at once
MaxFds == 2
\* bytes of a region's payload; offsets and lengths go one past it
MaxRegionSize == 2
\* offsets of the reads and writes of the fixed regions are 0..MaxPos
MaxPos == 3
\* and their lengths 0..MaxCount
MaxCount == 6
\* the eventfd contexts a caller can hand in are 1..MaxEventfd
MaxEventfd == 2

(* ---------------------------- errno values ----------------------------- *)
ESRCH == 3
ENOMEM == 12
EFAULT == 14
EEXIST == 17
EINVAL == 22
ENOTTY == 25

(* --------------------------- vfio region indexes ------------------------ *)
VFIO_PCI_BAR0_REGION_INDEX == 0
VFIO_PCI_CONFIG_REGION_INDEX == 7
\* BAR1 .. BAR5, the ROM and the VGA region
StubRegions == {1, 2, 3, 4, 5, 6, 8}
VFIO_PCI_NUM_REGIONS == 9
VFIO_PCI_INTX_IRQ_INDEX == 0
VFIO_PCI_MSI_IRQ_INDEX == 1

(* ------------------------------ universes ------------------------------ *)
GFNs == 0..MaxGfn
DmaAddrs == 1..MaxDma
\* the objects kzalloc can return: MaxObj for every gfn (which address the
\* allocator picks is immaterial, so an object is named after the gfn it is
\* allocated for)
ObjIds == 1..((MaxGfn + 1) * MaxObj)
\* kzalloc's NULL
NULL == 0
\* an out-parameter that was not written, a field that does not apply
None == -1
\* vgpu->handle values a caller may pass: 0 and 255 are not handles, the
\* third is the address of the struct kvmgt_guest_info
Handles == {0, 255, 4096}
\* the guests; NULL is no struct kvm
KVMs == 1..MaxKvm
\* the address of the struct kvmgt_guest_info that vzalloc returns
InfoPtr == 4096
\* the two callers of __intel_vgpu_release: intel_vgpu_release (the device
\* file is closed) and intel_vgpu_release_work (the group lost its kvm)
Releasers == {"close", "work"}
\* the threads that call into the cache and those that call into the table
CacheThreads == {"t1", "t2"}
TableThreads == {"p1", "p2"}
\* this vGPU and another vGPU of the same gvt device
Openers == {"self", "other"}
\* the users of the cache that hold addresses it has returned
Users == {"A", "B"}
NoCop == [pc |-> "idle", op |-> "none", gfn |-> None, dma_addr |-> None,
          end |-> None, entry |-> NULL, again |-> FALSE]
NoSlot == [base_gfn |-> None, npages |-> None]
NoPop == [pc |-> "idle", op |-> "none", gfn |-> None, slot |-> NoSlot,
          locks |-> <<>>, ret |-> 0]
NoOpn == [pc |-> "idle", kvm |-> NULL, bound |-> FALSE, regs |-> 0,
          ret |-> 0, returned |-> FALSE]
NoHeld == [gfn |-> None, dma_addr |-> None, state |-> "none",
           after |-> FALSE]
\* what vgpu_opregion(vgpu)->va is at open: NULL, a mapping that does not
\* start with OPREGION_SIGNATURE, or one that does
OpregionStates == {"unmapped", "mismatch", "signed"}
\* the free slot of the object heap
Free == [gfn |-> None, dma_addr |-> None, ref |-> 0]

VARIABLES
    gfn_cache,       \* vdev.gfn_cache: the objects linked by gfn_node
    dma_addr_cache,  \* vdev.dma_addr_cache: those linked by dma_addr_node
    objs,            \* the struct gvt_dma heap: id -> [gfn, dma_addr, ref]
    pinned,          \* vfio: pins currently held per gfn
    mapped,          \* DMA API: live dma_map_page mappings per address
    destroy_pc,      \* gvt_cache_destroy: "idle" or "loop"
    ptable,          \* info->ptable: number of kvmgt_pgfn nodes per gfn
    gfn_track,       \* KVM: write-track count per gfn
    memslots,        \* KVM: the guest's memory slots
    last,            \* the most recent call: result and host calls
    scenario,        \* progress of map(g), map(g), unmap(d), unmap(d)
    vgpu_handle,     \* vgpu->handle: 0 or the address of the guest info
    vdev,            \* vgpu->vdev: kvm, released, the regions, the notifiers
    info,            \* the struct kvmgt_guest_info: kvm and track_node
    active,          \* the device model's vgpu->active
    rel,             \* where each caller of __intel_vgpu_release stands
    hooks,           \* calls of each release step since the session opened
    rw,              \* the intel_vgpu_rw call in flight and what it did
    fds,             \* vfio: opens of the device file not yet closed
    group_kvm,       \* vfio: the kvm of the device's group
    others,          \* the kvm of every other active vGPU with a handle
    order,           \* the release steps of the session, in call order
    io,              \* the most recent read, write or ioctl and its result
    cache_lock,      \* vdev.cache_lock: "free" or the thread that holds it
    cop,             \* the cache operation each thread is in, step by step
    mmu_lock,        \* kvm->mmu_lock: "free" or the thread that holds it
    pop,             \* the table operation each thread is in, step by step
    opn,             \* the intel_vgpu_open calls in flight, step by step
    held             \* what each user of the cache believes it has mapped

cache_vars == <<gfn_cache, dma_addr_cache, objs, pinned, mapped, destroy_pc>>
pt_vars == <<ptable, gfn_track, memslots>>
conc_vars == <<cache_lock, cop, mmu_lock, pop, opn, held>>
dev_vars == <<vgpu_handle, vdev, info, active, rel, hooks, rw, fds, group_kvm,
             others, order, io, conc_vars>>
vars == <<gfn_cache, dma_addr_cache, objs, pinned, mapped, destroy_pc,
          ptable, gfn_track, memslots, last, scenario,
          vgpu_handle, vdev, info, active, rel, hooks, rw, fds, group_kvm,
          others, order, io, cache_lock, cop, mmu_lock, pop, opn, held>>

(* ------------------------------ helpers -------------------------------- *)
handle_valid(handle) == (handle \div 256) # 0

RECURSIVE SumOver(_, _)
SumOver(f, S) ==
    IF S = {} THEN 0
    ELSE LET x == CHOOSE y \in S : TRUE IN f[x] + SumOver(f, S \ {x})

\* the cache and the host resources it owns, as one value the helpers
\* transform
Cache == [gfn_cache |-> gfn_cache, dma_addr_cache |-> dma_addr_cache,
          objs |-> objs, pinned |-> pinned, mapped |-> mapped]

SetCache(c) ==
    /\ gfn_cache' = c.gfn_cache
    /\ dma_addr_cache' = c.dma_addr_cache
    /\ objs' = c.objs
    /\ pinned' = c.pinned
    /\ mapped' = c.mapped

\* One call as its caller and the host see it.  op: the function; handle:
\* the handle passed (None for the notifiers and the teardown); gfn: the
\* gfn of a protection-table call (None otherwise); dma_addr: what map
\* wrote to *dma_addr (None otherwise); ret: the return value (0 for void);
\* hit: the call found what it looked up (map: an entry for the gfn, unmap:
\* an entry for the address, add/remove/write: the gfn in the table,
\* invalidate/destroy: an entry with a refcount above 1 among the removed);
\* calls: the host calls made (map: pins taken, unmap/invalidate/destroy:
\* unmap+unpin, add/remove/flush: trap installs or removals, write: calls
\* of the write-protect handler).
Call(op, handle, gfn, dma_addr, ret, hit, calls) ==
    [op |-> op, handle |-> handle, gfn |-> gfn, dma_addr |-> dma_addr,
     ret |-> ret, hit |-> hit, calls |-> calls]

(* ----------------------- host page pinning and DMA --------------------- *)
\* What the host does for one gvt_dma_map_page call: whether vfio_pin_pages
\* pins the page (it cannot once MaxPins pages are pinned), whether the
\* pinned pfn is memory backed, and the address dma_map_page returns (None:
\* dma_mapping_error).  A step that is not reached has no outcome of its
\* own.  The address is any address: without an IOMMU it is the address of
\* the backing page, which two gfns can share.
HostOutcomes ==
    {[pin |-> FALSE, pfn_valid |-> FALSE, dma |-> None],
     [pin |-> TRUE, pfn_valid |-> FALSE, dma |-> None]}
    \cup [pin : {TRUE}, pfn_valid : {TRUE}, dma : DmaAddrs \cup {None}]

\* gvt_dma_map_page without the vfio_unpin_pages of its dma_mapping_error
\* branch
gvt_dma_map_page_keeps_pin(c, gfn, host) ==
    IF ~host.pin
    THEN [ret |-> -EINVAL, dma_addr |-> None,
          pinned |-> c.pinned, mapped |-> c.mapped]
    ELSE LET pin1 == [c.pinned EXCEPT ![gfn] = @ + 1]
         IN IF ~host.pfn_valid
            THEN [ret |-> -EINVAL, dma_addr |-> None,
                  pinned |-> c.pinned, mapped |-> c.mapped]
            ELSE IF host.dma = None
            THEN [ret |-> -ENOMEM, dma_addr |-> None,
                  pinned |-> pin1, mapped |-> c.mapped]
            ELSE [ret |-> 0, dma_addr |-> host.dma, pinned |-> pin1,
                  mapped |-> [c.mapped EXCEPT ![host.dma] = @ + 1]]

\* gvt_dma_map_page: the return value, the address and the pins and
\* mappings held afterwards
gvt_dma_map_page(c, gfn, host) ==
    IF ~host.pin
    THEN [ret |-> -EINVAL, dma_addr |-> None,
          pinned |-> c.pinned, mapped |-> c.mapped]
    ELSE LET pin1 == [c.pinned EXCEPT ![gfn] = @ + 1]
             unpin == [pin1 EXCEPT ![gfn] = @ - 1]
         IN IF ~host.pfn_valid
            THEN [ret |-> -EINVAL, dma_addr |-> None,
                  pinned |-> unpin, mapped |-> c.mapped]
            ELSE IF host.dma = None
            THEN [ret |-> -ENOMEM, dma_addr |-> None,
                  pinned |-> unpin, mapped |-> c.mapped]
            ELSE [ret |-> 0, dma_addr |-> host.dma, pinned |-> pin1,
                  mapped |-> [c.mapped EXCEPT ![host.dma] = @ + 1]]

gvt_dma_unmap_page(c, gfn, dma_addr) ==
    [c EXCEPT !.mapped[dma_addr] = @ - 1, !.pinned[gfn] = @ - 1]

(* ----------------------------- the two trees --------------------------- *)
\* A tree is the set of objects linked into it; the order of its nodes is
\* the order of their keys.  The lookups return the set of nodes the search
\* can end at: empty for NULL, one node when the key is unique, and any
\* node carrying the key when several do (which of them is nearest the
\* root depends on the rebalancing history).
\* the address lookup returning the node its descent stopped at when no
\* node carries the address
find_dma_addr_last_visited(c, dma_addr) ==
    LET hits == {e \in c.dma_addr_cache : c.objs[e].dma_addr = dma_addr}
    IN IF hits = {} THEN c.dma_addr_cache ELSE hits

__gvt_cache_find_dma_addr(c, dma_addr) ==
    {e \in c.dma_addr_cache : c.objs[e].dma_addr = dma_addr}

\* the gfn lookup comparing the gfn with the nodes' dma_addr
find_gfn_by_dma_addr(c, gfn) ==
    {e \in c.gfn_cache : c.objs[e].dma_addr = gfn}

__gvt_cache_find_gfn(c, gfn) ==
    {e \in c.gfn_cache : c.objs[e].gfn = gfn}

\* rb_first(&vgpu->vdev.gfn_cache): a node with the smallest gfn
rb_first(c) ==
    IF c.gfn_cache = {} THEN NULL
    ELSE CHOOSE e \in c.gfn_cache :
            \A f \in c.gfn_cache : c.objs[e].gfn <= c.objs[f].gfn

\* kzalloc(sizeof(struct gvt_dma)): the lowest free object of the gfn, or
\* NULL when none is left
kzalloc(c, gfn) ==
    LET free == {e \in (gfn * MaxObj + 1)..(gfn * MaxObj + MaxObj) :
                    c.objs[e] = Free}
    IN IF free = {} THEN NULL
       ELSE CHOOSE e \in free : \A f \in free : e <= f

\* __gvt_cache_add(vgpu, gfn, dma_addr), alloc: whether kzalloc succeeds.
\* Neither descent looks for a node that already carries the key.
__gvt_cache_add(c, gfn, dma_addr, alloc) ==
    LET new == IF alloc THEN kzalloc(c, gfn) ELSE NULL
    IN IF new = NULL THEN c
       ELSE [c EXCEPT
               !.objs[new] = [gfn |-> gfn, dma_addr |-> dma_addr, ref |-> 1],
               !.gfn_cache = @ \cup {new},
               !.dma_addr_cache = @ \cup {new}]

\* the removal without the rb_erase of dma_addr_node
remove_entry_gfn_only(c, entry) ==
    [c EXCEPT !.gfn_cache = @ \ {entry},
              !.objs[entry] = Free]

__gvt_cache_remove_entry(c, entry) ==
    [c EXCEPT !.gfn_cache = @ \ {entry},
              !.dma_addr_cache = @ \ {entry},
              !.objs[entry] = Free]

\* the pages the device holds pinned
Pins(c) == SumOver(c.pinned, GFNs)

(* --------------------- progress of the map/unmap run ------------------- *)
NoScenario == [stage |-> 0, gfn |-> None, dma_addr |-> None,
               maps |-> 0, unmaps |-> 0]

\* The run is map(g) on a gfn without an entry, map(g), unmap(d), unmap(d)
\* with d the address the first map returned, all four reporting success
\* and nothing else in between; stage counts how many of its calls the most
\* recent calls are, maps and unmaps the host pin+map and unmap+unpin calls
\* made so far in the run.  gfn and dma_addr are the arguments of the call.
ScenarioAfter(call, gfn, dma_addr) ==
    LET ok == call.ret = 0 /\ handle_valid(call.handle)
    IN IF /\ scenario.stage = 1 /\ call.op = "map" /\ ok
          /\ gfn = scenario.gfn
       THEN [scenario EXCEPT !.stage = 2, !.maps = @ + call.calls]
       ELSE IF /\ scenario.stage \in {2, 3} /\ call.op = "unmap" /\ ok
               /\ dma_addr = scenario.dma_addr
       THEN [scenario EXCEPT !.stage = @ + 1, !.unmaps = @ + call.calls]
       ELSE IF call.op = "map" /\ ok /\ ~call.hit
       THEN [stage |-> 1, gfn |-> gfn, dma_addr |-> call.dma_addr,
             maps |-> call.calls, unmaps |-> 0]
       ELSE NoScenario

Record(call) == last' = call

\* the run is followed (on) or left alone
Track(on, gfn, dma_addr) ==
    scenario' = IF on THEN ScenarioAfter(last', gfn, dma_addr) ELSE scenario

(* --------------------------- cache operations -------------------------- *)
\* kvmgt_dma_map_guest_page(handle, gfn, &dma_addr); host is what the host
\* does when the page has to be pinned and mapped, alloc whether the
\* allocation in __gvt_cache_add succeeds
kvmgt_dma_map_guest_page(handle, gfn, host, alloc) ==
    IF ~handle_valid(handle)
    THEN /\ UNCHANGED cache_vars
         /\ Record(Call("map", handle, None, None, -EINVAL, FALSE, 0))
    ELSE LET found == __gvt_cache_find_gfn(Cache, gfn)
         IN IF found = {}
            THEN LET m == gvt_dma_map_page(Cache, gfn, host)
                     c1 == [Cache EXCEPT !.pinned = m.pinned,
                                         !.mapped = m.mapped]
                     c2 == IF m.ret # 0 THEN c1
                           ELSE __gvt_cache_add(c1, gfn, m.dma_addr, alloc)
                 IN /\ host.pin => Pins(Cache) < MaxPins
                    /\ SetCache(c2)
                    /\ UNCHANGED destroy_pc
                    /\ Record(Call("map", handle, None, m.dma_addr, m.ret,
                                   FALSE, IF host.pin THEN 1 ELSE 0))
            ELSE \E entry \in found :
                    /\ objs[entry].ref < MaxRef
                    /\ SetCache([Cache EXCEPT !.objs[entry].ref = @ + 1])
                    /\ UNCHANGED destroy_pc
                    /\ Record(Call("map", handle, None, objs[entry].dma_addr,
                                   0, TRUE, 0))

\* __gvt_dma_release, the kref release callback
__gvt_dma_release(c, entry) ==
    __gvt_cache_remove_entry(
        gvt_dma_unmap_page(c, c.objs[entry].gfn, c.objs[entry].dma_addr),
        entry)

\* kref_put(&entry->ref, __gvt_dma_release)
kref_put(c, entry) ==
    IF c.objs[entry].ref = 1
    THEN __gvt_dma_release(c, entry)
    ELSE [c EXCEPT !.objs[entry].ref = @ - 1]

\* kvmgt_dma_unmap_guest_page(handle, dma_addr)
kvmgt_dma_unmap_guest_page(handle, dma_addr) ==
    IF ~handle_valid(handle)
    THEN /\ UNCHANGED cache_vars
         /\ Record(Call("unmap", handle, None, None, 0, FALSE, 0))
    ELSE LET found == __gvt_cache_find_dma_addr(Cache, dma_addr)
         IN IF found = {}
            THEN /\ UNCHANGED cache_vars
                 /\ Record(Call("unmap", handle, None, None, 0, FALSE, 0))
            ELSE \E entry \in found :
                    /\ SetCache(kref_put(Cache, entry))
                    /\ UNCHANGED destroy_pc
                    /\ Record(Call("unmap", handle, None, None, 0, TRUE,
                                   IF objs[entry].ref = 1 THEN 1 ELSE 0))

\* the notifier's loop dropping one reference instead of the entry
RECURSIVE iommu_unmap_range_put(_, _, _)
iommu_unmap_range_put(c, iov_pfn, end_iov_pfn) ==
    IF ~(iov_pfn < end_iov_pfn) THEN c
    ELSE LET found == {e \in c.gfn_cache : c.objs[e].gfn = iov_pfn}
         IN IF found = {}
            THEN iommu_unmap_range_put(c, iov_pfn + 1, end_iov_pfn)
            ELSE iommu_unmap_range_put(
                     kref_put(c, CHOOSE e \in found : TRUE),
                     iov_pfn + 1, end_iov_pfn)

\* The loop of intel_vgpu_iommu_notifier over iov_pfn..end_iov_pfn-1.  The
\* entry taken for a gfn is the one the tree search ends at.
RECURSIVE iommu_unmap_range(_, _, _)
iommu_unmap_range(c, iov_pfn, end_iov_pfn) ==
    IF ~(iov_pfn < end_iov_pfn) THEN c
    ELSE LET found == __gvt_cache_find_gfn(c, iov_pfn)
         IN IF found = {}
            THEN iommu_unmap_range(c, iov_pfn + 1, end_iov_pfn)
            ELSE LET entry == CHOOSE e \in found : TRUE
                 IN iommu_unmap_range(
                        __gvt_cache_remove_entry(
                            gvt_dma_unmap_page(c, c.objs[entry].gfn,
                                               c.objs[entry].dma_addr),
                            entry),
                        iov_pfn + 1, end_iov_pfn)

\* intel_vgpu_iommu_notifier(nb, action, data): unmap is whether action is
\* VFIO_IOMMU_NOTIFY_DMA_UNMAP, iov_pfn is data->iova >> PAGE_SHIFT and
\* npages is data->size / PAGE_SIZE
intel_vgpu_iommu_notifier(unmap, iov_pfn, npages) ==
    LET end_iov_pfn == iov_pfn + npages
        c1 == IF unmap THEN iommu_unmap_range(Cache, iov_pfn, end_iov_pfn)
              ELSE Cache
        gone == gfn_cache \ c1.gfn_cache
    IN /\ SetCache(c1)
       /\ UNCHANGED destroy_pc
       /\ Record(Call(IF unmap THEN "invalidate" ELSE "notify", None, None,
                      None, 0, \E e \in gone : objs[e].ref > 1,
                      Pins(Cache) - Pins(c1)))

\* gvt_cache_destroy is entered (from kvmgt_guest_exit)
gvt_cache_destroy_call ==
    /\ destroy_pc = "idle"
    /\ destroy_pc' = "loop"
    /\ UNCHANGED <<gfn_cache, dma_addr_cache, objs, pinned, mapped>>
    /\ Record(Call("destroy_call", None, None, None, 0, FALSE, 0))

\* one iteration of the for (;;) loop of gvt_cache_destroy, under the lock:
\* the cache afterwards and whether the loop goes on
gvt_cache_destroy(c) ==
    IF rb_first(c) = NULL
    THEN [cache |-> c, pc |-> "idle"]
    ELSE LET dma == rb_first(c)
         IN [cache |-> __gvt_cache_remove_entry(
                           gvt_dma_unmap_page(c, c.objs[dma].gfn,
                                              c.objs[dma].dma_addr),
                           dma),
             pc |-> "loop"]

gvt_cache_destroy_step ==
    /\ destroy_pc = "loop"
    /\ LET r == gvt_cache_destroy(Cache)
       IN /\ SetCache(r.cache)
          /\ destroy_pc' = r.pc
          /\ Record(Call("destroy", None, None, None, 0,
                         gfn_cache # {} /\ objs[rb_first(Cache)].ref > 1,
                         Pins(Cache) - Pins(r.cache)))

(* ------------------------ the protection table ------------------------- *)
\* a memory slot covers the gfns base_gfn .. base_gfn + npages - 1
Slots ==
    {sl \in [base_gfn : GFNs, npages : 1..MaxSlotPages] :
        sl.base_gfn + sl.npages - 1 <= MaxGfn}

SlotGfns(slot) == slot.base_gfn..(slot.base_gfn + slot.npages - 1)

\* the slot layouts of a guest: slots do not overlap
SlotLayouts ==
    {L \in SUBSET Slots :
        \A a \in L, b \in L : a # b => SlotGfns(a) \cap SlotGfns(b) = {}}

\* gfn_to_memslot(kvm, gfn): the slots holding the gfn (none: NULL)
gfn_to_memslot(gfn) == {sl \in memslots : gfn \in SlotGfns(sl)}

__kvmgt_protect_table_find(pt, gfn) == pt[gfn] > 0

kvmgt_gfn_is_write_protected(pt, gfn) == __kvmgt_protect_table_find(pt, gfn)

\* kvmgt_protect_table_add(info, gfn), alloc: whether kzalloc succeeds
kvmgt_protect_table_add(pt, gfn, alloc) ==
    IF kvmgt_gfn_is_write_protected(pt, gfn) THEN pt
    ELSE IF ~alloc THEN pt
    ELSE [pt EXCEPT ![gfn] = @ + 1]

\* kvmgt_protect_table_del(info, gfn): unlinks the node the lookup found
kvmgt_protect_table_del(pt, gfn) ==
    IF __kvmgt_protect_table_find(pt, gfn)
    THEN [pt EXCEPT ![gfn] = @ - 1]
    ELSE pt

kvm_slot_page_track_add_page(track, gfn) == [track EXCEPT ![gfn] = @ + 1]

kvm_slot_page_track_remove_page(track, gfn) == [track EXCEPT ![gfn] = @ - 1]

\* kvmgt_write_protect_add without the check of the slot
write_protect_add_any_slot(handle, gfn, alloc) ==
    IF ~handle_valid(handle)
    THEN /\ UNCHANGED pt_vars
         /\ Record(Call("add", handle, gfn, None, -ESRCH, FALSE, 0))
    ELSE IF ptable[gfn] > 0
    THEN /\ UNCHANGED pt_vars
         /\ Record(Call("add", handle, gfn, None, 0, TRUE, 0))
    ELSE /\ gfn_track[gfn] < MaxTrack
         /\ gfn_track' = [gfn_track EXCEPT ![gfn] = @ + 1]
         /\ ptable' = IF alloc THEN [ptable EXCEPT ![gfn] = @ + 1] ELSE ptable
         /\ UNCHANGED memslots
         /\ Record(Call("add", handle, gfn, None, 0, FALSE, 1))

\* kvmgt_write_protect_add(handle, gfn)
kvmgt_write_protect_add(handle, gfn, alloc) ==
    IF ~handle_valid(handle)
    THEN /\ UNCHANGED pt_vars
         /\ Record(Call("add", handle, gfn, None, -ESRCH, FALSE, 0))
    ELSE IF gfn_to_memslot(gfn) = {}
    THEN /\ UNCHANGED pt_vars
         /\ Record(Call("add", handle, gfn, None, -EINVAL,
                        kvmgt_gfn_is_write_protected(ptable, gfn), 0))
    ELSE IF kvmgt_gfn_is_write_protected(ptable, gfn)
    THEN /\ UNCHANGED pt_vars
         /\ Record(Call("add", handle, gfn, None, 0, TRUE, 0))
    ELSE /\ gfn_track[gfn] < MaxTrack
         /\ gfn_track' = kvm_slot_page_track_add_page(gfn_track, gfn)
         /\ ptable' = kvmgt_protect_table_add(ptable, gfn, alloc)
         /\ UNCHANGED memslots
         /\ Record(Call("add", handle, gfn, None, 0, FALSE, 1))

\* kvmgt_write_protect_remove(handle, gfn)
kvmgt_write_protect_remove(handle, gfn) ==
    IF ~handle_valid(handle)
    THEN /\ UNCHANGED pt_vars
         /\ Record(Call("remove", handle, gfn, None, 0, FALSE, 0))
    ELSE IF gfn_to_memslot(gfn) = {}
    THEN /\ UNCHANGED pt_vars
         /\ Record(Call("remove", handle, gfn, None, -EINVAL,
                        kvmgt_gfn_is_write_protected(ptable, gfn), 0))
    ELSE IF ~kvmgt_gfn_is_write_protected(ptable, gfn)
    THEN /\ UNCHANGED pt_vars
         /\ Record(Call("remove", handle, gfn, None, 0, FALSE, 0))
    ELSE /\ gfn_track' = kvm_slot_page_track_remove_page(gfn_track, gfn)
         /\ ptable' = kvmgt_protect_table_del(ptable, gfn)
         /\ UNCHANGED memslots
         /\ Record(Call("remove", handle, gfn, None, 0, TRUE, 1))

\* kvmgt_page_track_write dropping the entry of the gfn it forwarded
page_track_write_unprotects(gfn) ==
    /\ ptable' = kvmgt_protect_table_del(ptable, gfn)
    /\ UNCHANGED <<gfn_track, memslots>>
    /\ Record(Call("write", None, gfn, None, 0,
                   kvmgt_gfn_is_write_protected(ptable, gfn),
                   IF kvmgt_gfn_is_write_protected(ptable, gfn) THEN 1 ELSE 0))

\* kvmgt_page_track_write(vcpu, gpa, val, len, node), gfn: gpa_to_gfn(gpa)
kvmgt_page_track_write(gfn) ==
    /\ UNCHANGED pt_vars
    /\ Record(Call("write", None, gfn, None, 0,
                   kvmgt_gfn_is_write_protected(ptable, gfn),
                   IF kvmgt_gfn_is_write_protected(ptable, gfn) THEN 1 ELSE 0))

\* the loop of kvmgt_page_track_flush_slot stopping one page early
RECURSIVE flush_slot_skips_last(_, _, _, _)
flush_slot_skips_last(pt, track, slot, i) ==
    IF ~(i < slot.npages - 1) THEN [ptable |-> pt, gfn_track |-> track]
    ELSE LET gfn == slot.base_gfn + i
         IN IF pt[gfn] > 0
            THEN flush_slot_skips_last([pt EXCEPT ![gfn] = @ - 1],
                                       [track EXCEPT ![gfn] = @ - 1],
                                       slot, i + 1)
            ELSE flush_slot_skips_last(pt, track, slot, i + 1)

\* the loop of kvmgt_page_track_flush_slot from page i on: the table
\* and the track counts afterwards
RECURSIVE flush_slot_from(_, _, _, _)
flush_slot_from(pt, track, slot, i) ==
    IF ~(i < slot.npages) THEN [ptable |-> pt, gfn_track |-> track]
    ELSE LET gfn == slot.base_gfn + i
         IN IF kvmgt_gfn_is_write_protected(pt, gfn)
            THEN flush_slot_from(kvmgt_protect_table_del(pt, gfn),
                                 kvm_slot_page_track_remove_page(track, gfn),
                                 slot, i + 1)
            ELSE flush_slot_from(pt, track, slot, i + 1)

\* kvmgt_page_track_flush_slot(kvm, slot, node)
kvmgt_page_track_flush_slot(slot) ==
    LET r == flush_slot_from(ptable, gfn_track, slot, 0)
    IN /\ ptable' = r.ptable
       /\ gfn_track' = r.gfn_track
       /\ UNCHANGED memslots
       /\ Record(Call("flush", None, slot.base_gfn, None, 0,
                      r.ptable # ptable,
                      SumOver(gfn_track, GFNs) - SumOver(r.gfn_track, GFNs)))

(* ------------------------- the device session -------------------------- *)
\* the release steps that are counted
HookNames == {"vgpu_deactivate", "release_opregion", "release_device_state",
              "kfree_region", "unregister_iommu", "unregister_group",
              "protect_table_destroy", "gvt_cache_destroy"}

NoInfo == [kvm |-> NULL, track_node |-> FALSE]

NoRw == [pc |-> "idle", index |-> None, pos |-> None, count |-> None,
         is_write |-> FALSE, region |-> "none", ret |-> 0, lo |-> 0, hi |-> 0,
         calls |-> 0]

\* a struct vfio_region_info that was not filled in
NoRegionInfo == [offset |-> [index |-> None, pos |-> None],
                 size |-> None, flags |-> {},
                 type |-> "none", subtype |-> "none"]

NoIo == [op |-> "none", index |-> None, pos |-> None, count |-> None,
         argsz |-> "none", action |-> "none", data |-> "none",
         trigger |-> None, ret |-> 0, chunks |-> <<>>, ppos |-> None,
         info |-> NoRegionInfo]

\* the vGPU after intel_vgpu_create, with no session, and its surroundings
\* no thread is inside an operation
InitConc ==
    /\ cache_lock = "free"
    /\ cop = [t \in CacheThreads |-> NoCop]
    /\ mmu_lock = "free"
    /\ pop = [t \in TableThreads |-> NoPop]
    /\ opn = [d \in Openers |-> NoOpn]
    /\ held = [u \in Users |-> NoHeld]

InitDevice ==
    /\ vgpu_handle = 0
    /\ vdev = [kvm |-> NULL, released |-> 0, num_regions |-> 0,
               region |-> <<>>, iommu_notifier |-> 0, group_notifier |-> 0,
               release_work |-> FALSE, msi_trigger |-> NULL]
    /\ info = NoInfo
    /\ active = FALSE
    /\ rel = [t \in Releasers |-> "idle"]
    /\ hooks = [h \in HookNames |-> 0]
    /\ rw = NoRw
    /\ fds = 0
    /\ group_kvm = NULL
    /\ order = <<>>
    /\ io = NoIo
    /\ InitConc

\* intel_vgpu_register_reg(vgpu, type, subtype, ops, size, flags, data) with
\* the krealloc succeeding
intel_vgpu_register_reg(v, type, subtype, ops, size, flags, data) ==
    [v EXCEPT !.region = Append(@, [type |-> type, subtype |-> subtype,
                                    ops |-> ops, size |-> size,
                                    flags |-> flags, data |-> data]),
              !.num_regions = @ + 1]

\* kvmgt_set_opregion registering whatever is mapped
set_opregion_unsigned(v, opregion) ==
    IF opregion = "unmapped" THEN v
    ELSE intel_vgpu_register_reg(v, "intel_vendor", "igd_opregion",
                                 "opregion", MaxRegionSize, {"READ"},
                                 opregion)

\* kvmgt_set_opregion(vgpu) with the array able to grow; opregion is what
\* vgpu_opregion(vgpu)->va points to.  The data of the region stands for
\* the first 16 bytes of its payload.
kvmgt_set_opregion(v, opregion) ==
    IF opregion = "unmapped" THEN v
    ELSE IF opregion # "signed" THEN v
    ELSE intel_vgpu_register_reg(v, "intel_vendor", "igd_opregion",
                                 "opregion", MaxRegionSize, {"READ"},
                                 opregion)

\* kvmgt_init_migration(vgpu); ok: both allocations succeed.  The data of
\* the region is the control byte at offset 0 of the vzalloc'ed payload.
kvmgt_init_migration(v, ok) ==
    IF ok THEN intel_vgpu_register_reg(v, "intel_vendor", "device_state",
                                       "device_state", MaxRegionSize,
                                       {"READ", "WRITE"}, "zero")
    ELSE v

\* __kvmgt_vgpu_exist(vgpu, kvm): the vGPU itself has no handle when this
\* is called, so the loop finds the kvm only with another vGPU
__kvmgt_vgpu_exist(kvm) == kvm # NULL /\ kvm \in others

\* kvmgt_guest_init ignoring the live handle of the vGPU
guest_init_rebinds(kvm, same_mm, alloc) ==
    IF kvm = NULL \/ ~same_mm THEN -ESRCH
    ELSE IF kvm # NULL /\ kvm \in others THEN -EEXIST
    ELSE IF ~alloc THEN -ENOMEM
    ELSE 0

\* what kvmgt_guest_init(mdev) returns; kvm: vgpu->vdev.kvm, same_mm:
\* whether kvm->mm is current->mm, alloc: whether vzalloc succeeds
kvmgt_guest_init(kvm, same_mm, alloc) ==
    IF handle_valid(vgpu_handle) THEN -EEXIST
    ELSE IF kvm = NULL \/ ~same_mm THEN -ESRCH
    ELSE IF __kvmgt_vgpu_exist(kvm) THEN -EEXIST
    ELSE IF ~alloc THEN -ENOMEM
    ELSE 0

\* intel_vgpu_open(mdev).  iommu_ret and group_ret are what the two
\* vfio_register_notifier calls return; registering the group notifier
\* makes vfio call it with the group's kvm when the group has one.
intel_vgpu_open(iommu_ret, group_ret, same_mm, alloc, opregion, migration) ==
    /\ fds < MaxFds
    /\ IF iommu_ret # 0
       THEN /\ UNCHANGED <<cache_vars, pt_vars, dev_vars>>
            /\ Record(Call("open", None, None, None, iommu_ret, FALSE, 0))
       ELSE IF group_ret # 0
       THEN /\ UNCHANGED <<cache_vars, pt_vars, dev_vars>>
            /\ Record(Call("open", None, None, None, group_ret, FALSE, 1))
       ELSE LET kvm == IF group_kvm # NULL THEN group_kvm ELSE vdev.kvm
                ret == kvmgt_guest_init(kvm, same_mm, alloc)
                v1 == [vdev EXCEPT !.kvm = kvm]
            IN IF ret # 0
               THEN /\ vdev' = v1
                    /\ UNCHANGED <<cache_vars, pt_vars, vgpu_handle, info, active,
                                   rel, hooks, rw, fds, group_kvm, others,
                                   order, io, conc_vars>>
                    /\ Record(Call("open", None, None, None, ret, FALSE, 2))
               ELSE /\ vgpu_handle' = InfoPtr
                    /\ info' = [kvm |-> kvm, track_node |-> TRUE]
                    /\ ptable' = [g \in GFNs |-> 0]
                    /\ gfn_cache' = {}
                    /\ dma_addr_cache' = {}
                    /\ vdev' = [kvmgt_init_migration(
                                    kvmgt_set_opregion(v1, opregion),
                                    migration)
                                EXCEPT !.released = 0,
                                       !.iommu_notifier = @ + 1,
                                       !.group_notifier = @ + 1]
                    /\ active' = TRUE
                    /\ hooks' = [h \in HookNames |-> 0]
                    /\ order' = <<>>
                    /\ fds' = fds + 1
                    /\ UNCHANGED <<objs, pinned, mapped, destroy_pc, gfn_track,
                                   memslots, rel, rw, group_kvm, others, io, conc_vars>>
                    /\ Record(Call("open", None, None, None, 0, FALSE, 2))

\* intel_vgpu_group_notifier(nb, VFIO_GROUP_NOTIFY_SET_KVM, data)
intel_vgpu_group_notifier(data) ==
    vdev' = [vdev EXCEPT !.kvm = data,
                         !.release_work = IF data = NULL THEN TRUE ELSE @]

\* vfio sets the kvm of the group and calls the registered group notifier
vfio_group_set_kvm(data) ==
    /\ data # group_kvm
    /\ group_kvm' = data
    /\ IF vdev.group_notifier > 0 THEN intel_vgpu_group_notifier(data)
       ELSE UNCHANGED vdev
    /\ UNCHANGED <<cache_vars, pt_vars, last, vgpu_handle, info, active, rel, hooks,
                   rw, fds, others, order, io, conc_vars>>

\* __intel_vgpu_release up to the test of the handle
release_enter(t) ==
    rel' = [rel EXCEPT ![t] = IF handle_valid(vgpu_handle) THEN "cmpxchg"
                              ELSE "idle"]

\* intel_vgpu_release(mdev): vfio calls it when a device file is closed,
\* which is after the reads and writes on that file
intel_vgpu_release ==
    /\ fds > 0
    /\ rel["close"] = "idle"
    /\ rw.pc = "idle" \/ fds > 1
    /\ fds' = fds - 1
    /\ release_enter("close")
    /\ UNCHANGED <<cache_vars, pt_vars, last, vgpu_handle, vdev, info, active,
                   hooks, rw, group_kvm, others, order, io, conc_vars>>

\* intel_vgpu_release_work(work): the scheduled work starts
intel_vgpu_release_work ==
    /\ vdev.release_work
    /\ rel["work"] = "idle"
    /\ vdev' = [vdev EXCEPT !.release_work = FALSE]
    /\ release_enter("work")
    /\ UNCHANGED <<cache_vars, pt_vars, last, vgpu_handle, info, active, hooks, rw,
                   fds, group_kvm, others, order, io, conc_vars>>

\* __intel_vgpu_release taking the guard whatever its value
release_cmpxchg_always_wins(t) ==
    /\ rel[t] = "cmpxchg"
    /\ vdev' = [vdev EXCEPT !.released = 1]
    /\ rel' = [rel EXCEPT ![t] = "deactivate"]
    /\ UNCHANGED <<cache_vars, pt_vars, last, vgpu_handle, info, active, hooks, rw,
                   fds, group_kvm, others, order, io, conc_vars>>

\* atomic_cmpxchg(&vgpu->vdev.released, 0, 1)
release_cmpxchg(t) ==
    /\ rel[t] = "cmpxchg"
    /\ IF vdev.released # 0
       THEN /\ rel' = [rel EXCEPT ![t] = "idle"]
            /\ UNCHANGED vdev
       ELSE /\ vdev' = [vdev EXCEPT !.released = 1]
            /\ rel' = [rel EXCEPT ![t] = "deactivate"]
    /\ UNCHANGED <<cache_vars, pt_vars, last, vgpu_handle, info, active, hooks, rw,
                   fds, group_kvm, others, order, io, conc_vars>>

\* intel_gvt_ops->vgpu_deactivate(vgpu)
release_deactivate(t) ==
    /\ rel[t] = "deactivate"
    /\ active' = FALSE
    /\ hooks' = [hooks EXCEPT !["vgpu_deactivate"] = @ + 1]
    /\ order' = Append(order, "vgpu_deactivate")
    /\ rel' = [rel EXCEPT ![t] = "regions"]
    /\ UNCHANGED <<cache_vars, pt_vars, last, vgpu_handle, vdev, info, rw, fds,
                   group_kvm, others, io, conc_vars>>

\* the loop over the regions calling the release of the last one first
release_loop_backwards(v) ==
    [i \in 1..v.num_regions |->
        "release_" \o v.region[v.num_regions + 1 - i].ops]

\* for (i = 0; i < num_regions; i++) region[i].ops->release(...): the
\* releases in call order
release_loop(v) ==
    [i \in 1..v.num_regions |-> "release_" \o v.region[i].ops]

\* the release of every region, then of the region array
release_regions(t) ==
    /\ rel[t] = "regions"
    /\ hooks' = [h \in HookNames |->
                   IF h = "kfree_region" THEN hooks[h] + 1
                   ELSE hooks[h] + Cardinality(
                            {i \in 1..vdev.num_regions :
                                h = "release_" \o vdev.region[i].ops})]
    /\ order' = order \o release_loop(vdev) \o <<"kfree_region">>
    /\ vdev' = [vdev EXCEPT !.num_regions = 0, !.region = <<>>]
    /\ rel' = [rel EXCEPT ![t] = "unregister"]
    /\ UNCHANGED <<cache_vars, pt_vars, last, vgpu_handle, info, active, rw, fds,
                   group_kvm, others, io, conc_vars>>

\* the two vfio_unregister_notifier calls giving up at the first failure
release_unregister_bails(t, iommu_ret, group_ret) ==
    /\ rel[t] = "unregister"
    /\ vdev' = [vdev EXCEPT
                   !.iommu_notifier = IF @ > 0 /\ iommu_ret = 0
                                      THEN @ - 1 ELSE @,
                   !.group_notifier = IF @ > 0 /\ iommu_ret = 0
                                         /\ group_ret = 0
                                      THEN @ - 1 ELSE @]
    /\ hooks' = [hooks EXCEPT !["unregister_iommu"] = @ + 1,
                              !["unregister_group"] =
                                  IF iommu_ret = 0 THEN @ + 1 ELSE @]
    /\ order' = order \o (IF iommu_ret = 0
                          THEN <<"unregister_iommu", "unregister_group">>
                          ELSE <<"unregister_iommu">>)
    /\ rel' = [rel EXCEPT ![t] = IF iommu_ret = 0 /\ group_ret = 0
                                THEN "guest_exit" ELSE "idle"]
    /\ UNCHANGED <<cache_vars, pt_vars, last, vgpu_handle, info, active, rw,
                   fds, group_kvm, others, io, conc_vars>>

\* the two vfio_unregister_notifier calls; iommu_ret and group_ret are
\* what they return.  A failure is only warned about; the notifier it
\* was called for stays registered.
release_unregister(t, iommu_ret, group_ret) ==
    /\ rel[t] = "unregister"
    /\ vdev' = [vdev EXCEPT
                   !.iommu_notifier = IF @ > 0 /\ iommu_ret = 0
                                      THEN @ - 1 ELSE @,
                   !.group_notifier = IF @ > 0 /\ group_ret = 0
                                      THEN @ - 1 ELSE @]
    /\ hooks' = [hooks EXCEPT !["unregister_iommu"] = @ + 1,
                              !["unregister_group"] = @ + 1]
    /\ order' = order \o <<"unregister_iommu", "unregister_group">>
    /\ rel' = [rel EXCEPT ![t] = "guest_exit"]
    /\ UNCHANGED <<cache_vars, pt_vars, last, vgpu_handle, info, active, rw,
                   fds, group_kvm, others, io, conc_vars>>

\* kvmgt_guest_exit(info) up to the first iteration of gvt_cache_destroy;
\* kvmgt_protect_table_destroy frees the nodes of the table
release_guest_exit(t) ==
    /\ rel[t] = "guest_exit"
    /\ info' = [info EXCEPT !.track_node = FALSE]
    /\ ptable' = [g \in GFNs |-> 0]
    /\ gvt_cache_destroy_call
    /\ hooks' = [hooks EXCEPT !["protect_table_destroy"] = @ + 1,
                              !["gvt_cache_destroy"] = @ + 1]
    /\ order' = order \o <<"protect_table_destroy", "gvt_cache_destroy">>
    /\ rel' = [rel EXCEPT ![t] = "destroy"]
    /\ UNCHANGED <<gfn_track, memslots, vgpu_handle, vdev, active, rw, fds,
                   group_kvm, others, io, conc_vars>>

\* gvt_cache_destroy has returned: vfree(info), then the kvm and the
\* handle of the vGPU are cleared
release_finish(t) ==
    /\ rel[t] = "destroy"
    /\ destroy_pc = "idle"
    /\ info' = NoInfo
    /\ vdev' = [vdev EXCEPT !.kvm = NULL]
    /\ vgpu_handle' = 0
    /\ rel' = [rel EXCEPT ![t] = "idle"]
    /\ UNCHANGED <<cache_vars, pt_vars, last, active, hooks, rw, fds,
                   group_kvm, others, order, io, conc_vars>>

(* --------------------------- region dispatch --------------------------- *)
\* What a region handler did: rc, the bytes lo .. hi-1 of the payload it
\* read or wrote (none when lo = hi), its calls into the device model, the
\* vgpu->active it leaves and the first byte of the payload it leaves.
Handled(rc, lo, hi, calls, act, data) ==
    [rc |-> rc, lo |-> lo, hi |-> hi, calls |-> calls, active |-> act,
     data |-> data]

Min(a, b) == IF a < b THEN a ELSE b

\* What the caller and the device model do for one call: whether the copy
\* from or to the user buffer succeeds, the state byte written at offset 0
\* (VFIO_DEVICE_STOP, VFIO_DEVICE_START or another value) and what
\* vgpu_save_restore returns.
UserOutcomes ==
    [copy_ok : BOOLEAN, state : {"stop", "start", "other"},
     save_restore : {0, -EINVAL}]

\* intel_vgpu_reg_rw_device_state storing the byte before it looks at it
reg_rw_device_state_stores_first(r, pos, count, iswrite, user) ==
    IF pos >= r.size THEN Handled(-EINVAL, 0, 0, 0, active, r.data)
    ELSE IF pos = 0
    THEN IF count # 1 THEN Handled(-EFAULT, 0, 0, 0, active, r.data)
         ELSE IF iswrite
         THEN IF ~user.copy_ok
              THEN Handled(-EFAULT, 0, 0, 0, active, r.data)
              ELSE IF user.state = "stop"
              THEN Handled(0, 0, 1, 1, FALSE, user.state)
              ELSE IF user.state = "start"
              THEN Handled(0, 0, 1, 1, TRUE, user.state)
              ELSE Handled(-EFAULT, 0, 1, 0, active, user.state)
         ELSE Handled(IF user.copy_ok THEN 0 ELSE -EFAULT, 0, 1, 0, active,
                      r.data)
    ELSE IF iswrite
    THEN IF ~user.copy_ok
         THEN Handled(-EFAULT, pos, pos + count, 0, active, r.data)
         ELSE Handled(user.save_restore, pos, pos + count, 1, active, r.data)
    ELSE IF user.save_restore # 0
         THEN Handled(-EFAULT, 0, 0, 1, active, r.data)
         ELSE Handled(IF user.copy_ok THEN 0 ELSE -EFAULT,
                      pos, pos + count, 1, active, r.data)

\* intel_vgpu_reg_rw_device_state(vgpu, buf, count, ppos, iswrite) on the
\* region descriptor r
intel_vgpu_reg_rw_device_state(r, pos, count, iswrite, user) ==
    IF pos >= r.size THEN Handled(-EINVAL, 0, 0, 0, active, r.data)
    ELSE IF pos = 0
    THEN IF count # 1 THEN Handled(-EFAULT, 0, 0, 0, active, r.data)
         ELSE IF iswrite
         THEN IF ~user.copy_ok
              THEN Handled(-EFAULT, 0, 0, 0, active, r.data)
              ELSE IF user.state = "stop"
              THEN Handled(0, 0, 1, 1, FALSE, user.state)
              ELSE IF user.state = "start"
              THEN Handled(0, 0, 1, 1, TRUE, user.state)
              ELSE Handled(-EFAULT, 0, 0, 0, active, r.data)
         ELSE Handled(IF user.copy_ok THEN 0 ELSE -EFAULT, 0, 1, 0, active,
                      r.data)
    ELSE IF iswrite
    THEN IF ~user.copy_ok
         THEN Handled(-EFAULT, pos, pos + count, 0, active, r.data)
         ELSE Handled(user.save_restore, pos, pos + count, 1, active, r.data)
    ELSE IF user.save_restore # 0
         THEN Handled(-EFAULT, 0, 0, 1, active, r.data)
         ELSE Handled(IF user.copy_ok THEN 0 ELSE -EFAULT,
                      pos, pos + count, 1, active, r.data)

\* intel_vgpu_reg_rw_opregion with the offset tested one too far
reg_rw_opregion_past_end(r, pos, count, iswrite, user) ==
    IF pos > r.size \/ iswrite
    THEN Handled(-EINVAL, 0, 0, 0, active, r.data)
    ELSE LET n == IF count < r.size - pos THEN count
                  ELSE IF r.size - pos > 0 THEN r.size - pos ELSE 0
         IN Handled(IF user.copy_ok THEN 0 ELSE -EINVAL,
                    pos, pos + n, 0, active, r.data)

\* intel_vgpu_reg_rw_opregion taking writes as it takes reads
reg_rw_opregion_writable(r, pos, count, iswrite, user) ==
    IF pos >= r.size THEN Handled(-EINVAL, 0, 0, 0, active, r.data)
    ELSE LET n == Min(count, r.size - pos)
         IN Handled(IF user.copy_ok THEN 0 ELSE -EINVAL,
                    pos, pos + n, 0, active,
                    IF iswrite /\ pos = 0 /\ n > 0 /\ user.copy_ok
                    THEN "written" ELSE r.data)

\* intel_vgpu_reg_rw_opregion(vgpu, buf, count, ppos, iswrite) on the region
\* descriptor r
intel_vgpu_reg_rw_opregion(r, pos, count, iswrite, user) ==
    IF pos >= r.size \/ iswrite
    THEN Handled(-EINVAL, 0, 0, 0, active, r.data)
    ELSE LET n == Min(count, r.size - pos)
         IN Handled(IF user.copy_ok THEN 0 ELSE -EINVAL,
                    pos, pos + n, 0, active, r.data)

\* intel_vgpu_rw without the tests of the index against num_regions
rw_enter_unchecked(index, pos, count, is_write) ==
    /\ fds > 0
    /\ rw.pc = "idle"
    /\ index >= VFIO_PCI_NUM_REGIONS
    /\ rw' = IF index >= VFIO_PCI_NUM_REGIONS + vdev.num_regions
             THEN [NoRw EXCEPT !.pc = "handler", !.index = index,
                               !.pos = pos, !.count = count,
                               !.is_write = is_write,
                               !.region = "opregion"]
             ELSE [NoRw EXCEPT
                      !.pc = "handler", !.index = index,
                      !.pos = pos, !.count = count,
                      !.is_write = is_write,
                      !.region =
                          vdev.region[index - VFIO_PCI_NUM_REGIONS + 1].ops]
    /\ UNCHANGED <<cache_vars, pt_vars, last, vgpu_handle, vdev, info, active,
                   rel, hooks, fds, group_kvm, others, order, io, conc_vars>>

\* intel_vgpu_rw(mdev, buf, count, ppos, is_write) for an index that is not
\* a fixed one, up to the call of the region's handler; index is the index
\* of *ppos (*ppos >> 40) and pos its offset
rw_enter(index, pos, count, is_write) ==
    /\ fds > 0
    /\ rw.pc = "idle"
    /\ index >= VFIO_PCI_NUM_REGIONS
    /\ rw' = IF index >= VFIO_PCI_NUM_REGIONS + vdev.num_regions
             THEN [NoRw EXCEPT !.index = index, !.pos = pos,
                               !.count = count, !.is_write = is_write,
                               !.ret = -EINVAL]
             ELSE [NoRw EXCEPT
                      !.pc = "handler", !.index = index,
                      !.pos = pos, !.count = count,
                      !.is_write = is_write,
                      !.region =
                          vdev.region[index - VFIO_PCI_NUM_REGIONS + 1].ops]
    /\ UNCHANGED <<cache_vars, pt_vars, last, vgpu_handle, vdev, info, active,
                   rel, hooks, fds, group_kvm, others, order, io, conc_vars>>

\* The handler runs and intel_vgpu_rw returns.  When the region array was
\* freed meanwhile the handler reads freed memory: any size, any result.
rw_handler(user) ==
    /\ rw.pc = "handler"
    /\ LET i == rw.index - VFIO_PCI_NUM_REGIONS + 1
           live == i <= vdev.num_regions
       IN \E size \in IF live THEN {vdev.region[i].size}
                      ELSE 0..MaxRegionSize :
          LET r == [ops |-> rw.region, size |-> size,
                    data |-> IF live THEN vdev.region[i].data ELSE "zero"]
              h == IF rw.region = "opregion"
                   THEN intel_vgpu_reg_rw_opregion(r, rw.pos, rw.count,
                                                   rw.is_write, user)
                   ELSE intel_vgpu_reg_rw_device_state(r, rw.pos, rw.count,
                                                       rw.is_write, user)
          IN /\ rw' = [rw EXCEPT !.pc = "idle",
                                 !.ret = IF h.rc = 0 THEN rw.count ELSE h.rc,
                                 !.lo = h.lo, !.hi = h.hi,
                                 !.calls = h.calls]
             /\ active' = h.active
             /\ vdev' = IF live
                        THEN [vdev EXCEPT !.region[i].data = h.data]
                        ELSE vdev
    /\ UNCHANGED <<cache_vars, pt_vars, last, vgpu_handle, info, rel,
                   hooks, fds, group_kvm, others, order, io, conc_vars>>

(* ------------------- reads and writes of fixed regions ----------------- *)
\* the chunk taken whenever enough bytes are left, aligned or not
chunk_size_unaligned(pos, count) ==
    IF count >= 4 THEN 4 ELSE IF count >= 2 THEN 2 ELSE 1

\* the width intel_vgpu_read and intel_vgpu_write pick for the next access
ChunkSize(pos, count) ==
    IF count >= 4 /\ pos % 4 = 0 THEN 4
    ELSE IF count >= 2 /\ pos % 2 = 0 THEN 2
    ELSE 1

\* How a chunked call goes: the number of the first chunk that fails (0:
\* none) and whether the emulation or the copy from or to the user fails.
ChunkOutcomes ==
    {f \in [at : 0..MaxCount, how : {"emul", "copy"}] :
        f.at = 0 => f.how = "emul"}

\* intel_vgpu_rw sending every BAR to the MMIO emulation
rw_fixed_every_bar(index, count, emul_ret) ==
    IF index = VFIO_PCI_CONFIG_REGION_INDEX
    THEN [ret |-> IF emul_ret = 0 THEN count ELSE emul_ret,
          handler |-> "cfg"]
    ELSE IF index <= 5
    THEN [ret |-> IF emul_ret = 0 THEN count ELSE emul_ret,
          handler |-> "mmio"]
    ELSE [ret |-> -EINVAL, handler |-> "none"]

\* intel_vgpu_rw(mdev, buf, count, ppos, is_write) for a fixed index:
\* what it returns and the emulation it calls; emul_ret is what
\* emulate_cfg_* or emulate_mmio_* returns
intel_vgpu_rw_fixed(index, count, emul_ret) ==
    IF index = VFIO_PCI_CONFIG_REGION_INDEX
    THEN [ret |-> IF emul_ret = 0 THEN count ELSE emul_ret,
          handler |-> "cfg"]
    ELSE IF index = VFIO_PCI_BAR0_REGION_INDEX
    THEN [ret |-> IF emul_ret = 0 THEN count ELSE emul_ret,
          handler |-> "mmio"]
    ELSE [ret |-> -EINVAL, handler |-> "none"]

\* the loop going on after a chunk has failed
RECURSIVE chunk_loop_goes_on(_, _, _, _, _, _, _)
chunk_loop_goes_on(index, pos, count, is_write, fail, done, chunks) ==
    IF count = 0 THEN [ret |-> done, chunks |-> chunks, ppos |-> pos]
    ELSE LET size == ChunkSize(pos, count)
             how == IF fail.at = Len(chunks) + 1 THEN fail.how ELSE "ok"
             copied == how # "copy"
             r == intel_vgpu_rw_fixed(index, size,
                                      IF how = "emul" THEN -EINVAL ELSE 0)
             called == IF is_write THEN copied ELSE TRUE
             ok == copied /\ r.ret > 0
             c == [pos |-> pos, size |-> size,
                   handler |-> IF called THEN r.handler ELSE "none",
                   ok |-> ok]
         IN chunk_loop_goes_on(index, pos + size, count - size,
                               is_write, fail,
                               IF ok THEN done + size ELSE done,
                               Append(chunks, c))

\* the while (count) loop of intel_vgpu_read and intel_vgpu_write.  A
\* write copies the chunk in before it calls intel_vgpu_rw, a read calls
\* intel_vgpu_rw and then copies the chunk out.
RECURSIVE chunk_loop(_, _, _, _, _, _, _)
chunk_loop(index, pos, count, is_write, fail, done, chunks) ==
    IF count = 0 THEN [ret |-> done, chunks |-> chunks, ppos |-> pos]
    ELSE LET size == ChunkSize(pos, count)
             how == IF fail.at = Len(chunks) + 1 THEN fail.how ELSE "ok"
             copied == how # "copy"
             r == intel_vgpu_rw_fixed(index, size,
                                      IF how = "emul" THEN -EINVAL ELSE 0)
             called == IF is_write THEN copied ELSE TRUE
             ok == copied /\ r.ret > 0
             c == [pos |-> pos, size |-> size,
                   handler |-> IF called THEN r.handler ELSE "none",
                   ok |-> ok]
         IN IF ~ok
            THEN [ret |-> -EFAULT, chunks |-> Append(chunks, c),
                  ppos |-> pos]
            ELSE chunk_loop(index, pos + size, count - size, is_write,
                            fail, done + size, Append(chunks, c))

\* intel_vgpu_read(mdev, buf, count, ppos) for a fixed index; a read of
\* another index is one intel_vgpu_rw call (rw_enter)
intel_vgpu_read(index, pos, count, fail) ==
    /\ fds > 0
    /\ index < VFIO_PCI_NUM_REGIONS
    /\ LET l == chunk_loop(index, pos, count, FALSE, fail, 0, <<>>)
       IN io' = [NoIo EXCEPT !.op = "read", !.index = index, !.pos = pos,
                             !.count = count, !.ret = l.ret,
                             !.chunks = l.chunks, !.ppos = l.ppos]
    /\ UNCHANGED <<cache_vars, pt_vars, last, vgpu_handle, vdev, info, active,
                   rel, hooks, rw, fds, group_kvm, others, order, conc_vars>>

\* intel_vgpu_write(mdev, buf, count, ppos) for a fixed index
intel_vgpu_write(index, pos, count, fail) ==
    /\ fds > 0
    /\ index < VFIO_PCI_NUM_REGIONS
    /\ LET l == chunk_loop(index, pos, count, TRUE, fail, 0, <<>>)
       IN io' = [NoIo EXCEPT !.op = "write", !.index = index, !.pos = pos,
                             !.count = count, !.ret = l.ret,
                             !.chunks = l.chunks, !.ppos = l.ppos]
    /\ UNCHANGED <<cache_vars, pt_vars, last, vgpu_handle, vdev, info, active,
                   rel, hooks, rw, fds, group_kvm, others, order, conc_vars>>

(* -------------------------------- ioctls ------------------------------- *)
\* A file offset: bits 40 and up are the region index, the bits below the
\* offset in the region (VFIO_PCI_OFFSET_SHIFT is 40).
VFIO_PCI_INDEX_TO_OFFSET(index) == [index |-> index, pos |-> 0]

\* What surrounds one VFIO_DEVICE_GET_REGION_INFO call: whether the copies
\* from and to the caller succeed, whether the caller's argsz is below
\* minsz ("short"), holds the info alone ("info") or the capabilities too
\* ("caps"), what vfio_info_add_capability returns, whether kzalloc
\* succeeds and the size of BAR0 in the virtual config space.
QueryOutcomes ==
    [copy_in : BOOLEAN, argsz : {"short", "info", "caps"},
     add_cap : {0, -ENOMEM}, copy_caps : BOOLEAN, copy_out : BOOLEAN,
     alloc : BOOLEAN, bar0_size : {0, MaxRegionSize}]

\* the descriptor always taken from the head of the array
region_of_index_first(v, index) == v.region[1]

\* vgpu->vdev.region[info.index - VFIO_PCI_NUM_REGIONS]
region_of_index(v, index) == v.region[index - VFIO_PCI_NUM_REGIONS + 1]

\* the switch on info.index: the info it fills in and the capability it
\* prepares, or the error it returns.  The sizes the device model gives
\* (config space, aperture) stand as MaxRegionSize.
region_info_switch(index, q) ==
    LET filled(size, flags, cap, type, subtype) ==
            [ret |-> 0, size |-> size, flags |-> flags, cap |-> cap,
             type |-> type, subtype |-> subtype]
        failed(ret) ==
            [ret |-> ret, size |-> None, flags |-> {}, cap |-> "none",
             type |-> "none", subtype |-> "none"]
        RW == {"READ", "WRITE"}
    IN IF index = VFIO_PCI_CONFIG_REGION_INDEX
       THEN filled(MaxRegionSize, RW, "none", "none", "none")
       ELSE IF index = VFIO_PCI_BAR0_REGION_INDEX
       THEN filled(q.bar0_size, IF q.bar0_size = 0 THEN {} ELSE RW,
                   "none", "none", "none")
       ELSE IF index = 2
       THEN IF ~q.alloc THEN failed(-ENOMEM)
            ELSE filled(MaxRegionSize, RW \cup {"CAPS", "MMAP"},
                        "sparse_mmap", "none", "none")
       ELSE IF index \in StubRegions
       THEN filled(0, {}, "none", "none", "none")
       ELSE IF index >= VFIO_PCI_NUM_REGIONS + vdev.num_regions
       THEN failed(-EINVAL)
       ELSE LET r == region_of_index(vdev, index)
            IN IF q.add_cap # 0 THEN failed(q.add_cap)
               ELSE filled(r.size, r.flags, "type", r.type, r.subtype)

\* intel_vgpu_ioctl(mdev, VFIO_DEVICE_GET_REGION_INFO, arg): what it
\* returns and the info and capability the caller receives
get_region_info(index, q) ==
    LET failed(ret) == [ret |-> ret, info |-> NoRegionInfo]
        sw == region_info_switch(index, q)
    IN IF ~q.copy_in THEN failed(-EFAULT)
       ELSE IF q.argsz = "short" THEN failed(-EINVAL)
       ELSE IF sw.ret # 0 THEN failed(sw.ret)
       ELSE IF sw.cap = "sparse_mmap" /\ q.add_cap # 0
       THEN failed(q.add_cap)
       ELSE IF sw.cap # "none" /\ q.argsz = "caps" /\ ~q.copy_caps
       THEN failed(-EFAULT)
       ELSE IF ~q.copy_out THEN failed(-EFAULT)
       ELSE LET delivered == sw.cap = "type" /\ q.argsz = "caps"
            IN [ret |-> 0,
                info |-> [offset |-> VFIO_PCI_INDEX_TO_OFFSET(index),
                          size |-> sw.size,
                          flags |-> IF sw.cap # "none"
                                    THEN sw.flags \cup {"CAPS"}
                                    ELSE sw.flags,
                          type |-> IF delivered THEN sw.type ELSE "none",
                          subtype |-> IF delivered THEN sw.subtype
                                      ELSE "none"]]

intel_vgpu_ioctl_get_region_info(index, q) ==
    /\ fds > 0
    /\ LET g == get_region_info(index, q)
       IN io' = [NoIo EXCEPT !.op = "region_info", !.index = index,
                             !.argsz = q.argsz, !.ret = g.ret,
                             !.info = g.info]
    /\ UNCHANGED <<cache_vars, pt_vars, last, vgpu_handle, vdev, info, active,
                   rel, hooks, rw, fds, group_kvm, others, order, conc_vars>>

\* the handler the two switches of intel_vgpu_set_irqs select for the
\* index and the action of the flags, "NULL" when they select none
set_irqs_func(index, action) ==
    IF index = VFIO_PCI_INTX_IRQ_INDEX
    THEN "intel_vgpu_set_intx_" \o action
    ELSE IF index = VFIO_PCI_MSI_IRQ_INDEX
    THEN IF action = "trigger" THEN "intel_vgpu_set_msi_trigger"
         ELSE "NULL"
    ELSE "NULL"

\* intel_vgpu_set_irqs(vgpu, flags, index, start, count, data); action and
\* data are the action and the data type of flags, trigger is what
\* eventfd_ctx_fdget returns for the descriptor in data: a context or
\* NULL for an error pointer
intel_vgpu_set_irqs(index, action, data, trigger) ==
    /\ fds > 0
    /\ LET func == set_irqs_func(index, action)
           binds == func = "intel_vgpu_set_msi_trigger" /\ data = "eventfd"
           ret == IF func = "NULL" THEN -ENOTTY
                  \* PTR_ERR(trigger), some negative errno
                  ELSE IF binds /\ trigger = NULL THEN -EINVAL
                  ELSE 0
       IN /\ vdev' = IF binds /\ trigger # NULL
                     THEN [vdev EXCEPT !.msi_trigger = trigger]
                     ELSE vdev
          /\ io' = [NoIo EXCEPT !.op = "set_irqs", !.index = index,
                                !.action = action, !.data = data,
                                !.trigger = trigger, !.ret = ret]
    /\ UNCHANGED <<cache_vars, pt_vars, last, vgpu_handle, info, active,
                   rel, hooks, rw, fds, group_kvm, others, order, conc_vars>>

\* kvmgt_inject_msi(handle, addr, data); signalled: eventfd_signal
\* returns 1.  io.trigger is the context that was signalled.
kvmgt_inject_msi(handle, signalled) ==
    /\ io' = IF ~handle_valid(handle)
             THEN [NoIo EXCEPT !.op = "inject_msi", !.ret = -ESRCH]
             ELSE [NoIo EXCEPT !.op = "inject_msi",
                               !.trigger = vdev.msi_trigger,
                               !.ret = IF signalled THEN 0 ELSE -EFAULT]
    /\ UNCHANGED <<cache_vars, pt_vars, last, vgpu_handle, vdev, info, active,
                   rel, hooks, rw, fds, group_kvm, others, order, conc_vars>>

(* ------------------ the cache operations, step by step ----------------- *)
\* what the steps of a cache operation leave alone
cop_frame ==
    UNCHANGED <<destroy_pc, pt_vars, last, scenario, vgpu_handle, vdev, info,
                active, rel, hooks, rw, fds, group_kvm, others, order, io,
                mmu_lock, pop, opn, held>>

\* a thread enters kvmgt_dma_map_guest_page (op "map", gfn),
\* kvmgt_dma_unmap_guest_page ("unmap", dma_addr), the unmap branch of
\* intel_vgpu_iommu_notifier ("notifier", gfn = iov_pfn, end = end_iov_pfn)
\* or gvt_cache_destroy ("destroy") and comes to its mutex_lock
cop_call(t, op, gfn, dma_addr, end) ==
    /\ cop[t].pc = "idle"
    /\ cop' = [cop EXCEPT ![t] = [NoCop EXCEPT !.pc = "lock", !.op = op,
                                               !.gfn = gfn,
                                               !.dma_addr = dma_addr,
                                               !.end = end]]
    /\ UNCHANGED <<gfn_cache, dma_addr_cache, objs, pinned, mapped,
                   cache_lock>>
    /\ cop_frame

\* mutex_lock taking the mutex whoever holds it
cache_mutex_lock_no_wait(t) ==
    /\ cop[t].pc = "lock"
    /\ cache_lock' = t
    /\ cop' = [cop EXCEPT ![t].pc = "find"]
    /\ UNCHANGED <<gfn_cache, dma_addr_cache, objs, pinned, mapped>>
    /\ cop_frame

\* mutex_lock(&vgpu->vdev.cache_lock)
cache_mutex_lock(t) ==
    /\ cop[t].pc = "lock"
    /\ cache_lock = "free"
    /\ cache_lock' = t
    /\ cop' = [cop EXCEPT ![t].pc = "find"]
    /\ UNCHANGED <<gfn_cache, dma_addr_cache, objs, pinned, mapped>>
    /\ cop_frame

\* mutex_unlock(&vgpu->vdev.cache_lock); gvt_cache_destroy comes back to
\* its mutex_lock unless the tree was empty
cache_mutex_unlock(t) ==
    /\ cop[t].pc = "unlock"
    /\ cache_lock' = IF cache_lock = t THEN "free" ELSE cache_lock
    /\ cop' = [cop EXCEPT ![t] = IF cop[t].again
                                 THEN [@ EXCEPT !.pc = "lock",
                                                !.again = FALSE,
                                                !.entry = NULL]
                                 ELSE NoCop]
    /\ UNCHANGED <<gfn_cache, dma_addr_cache, objs, pinned, mapped>>
    /\ cop_frame

\* map, from __gvt_cache_find_gfn to the allocation in __gvt_cache_add
cop_map_find(t, host, alloc) ==
    /\ cop[t].pc = "find"
    /\ cop[t].op = "map"
    /\ LET found == __gvt_cache_find_gfn(Cache, cop[t].gfn)
       IN IF found = {}
          THEN LET m == gvt_dma_map_page(Cache, cop[t].gfn, host)
                   new == IF alloc THEN kzalloc(Cache, cop[t].gfn) ELSE NULL
               IN /\ host.pin => Pins(Cache) < MaxPins
                  /\ pinned' = m.pinned
                  /\ mapped' = m.mapped
                  /\ IF m.ret # 0 \/ new = NULL
                     THEN /\ cop' = [cop EXCEPT ![t].pc = "unlock"]
                          /\ UNCHANGED objs
                     ELSE /\ objs' = [objs EXCEPT
                                        ![new] = [gfn |-> cop[t].gfn,
                                                  dma_addr |-> m.dma_addr,
                                                  ref |-> 1]]
                          /\ cop' = [cop EXCEPT ![t].pc = "add_gfn",
                                                ![t].entry = new]
          ELSE \E entry \in found :
                  /\ objs[entry].ref < MaxRef
                  /\ objs' = [objs EXCEPT ![entry].ref = @ + 1]
                  /\ cop' = [cop EXCEPT ![t].pc = "unlock"]
                  /\ UNCHANGED <<pinned, mapped>>
    /\ UNCHANGED <<gfn_cache, dma_addr_cache, cache_lock>>
    /\ cop_frame

\* __gvt_cache_add: rb_link_node and rb_insert_color into gfn_cache
cop_add_gfn(t) ==
    /\ cop[t].pc = "add_gfn"
    /\ gfn_cache' = gfn_cache \cup {cop[t].entry}
    /\ cop' = [cop EXCEPT ![t].pc = "add_dma"]
    /\ UNCHANGED <<dma_addr_cache, objs, pinned, mapped, cache_lock>>
    /\ cop_frame

\* __gvt_cache_add: rb_link_node and rb_insert_color into dma_addr_cache
cop_add_dma(t) ==
    /\ cop[t].pc = "add_dma"
    /\ dma_addr_cache' = dma_addr_cache \cup {cop[t].entry}
    /\ cop' = [cop EXCEPT ![t].pc = "unlock"]
    /\ UNCHANGED <<gfn_cache, objs, pinned, mapped, cache_lock>>
    /\ cop_frame

\* gvt_dma_unmap_page for the entry the thread found, before
\* __gvt_cache_remove_entry
cop_release(t, entry) ==
    /\ pinned' = [pinned EXCEPT ![objs[entry].gfn] = @ - 1]
    /\ mapped' = [mapped EXCEPT ![objs[entry].dma_addr] = @ - 1]
    /\ cop' = [cop EXCEPT ![t].pc = "erase_gfn", ![t].entry = entry]
    /\ UNCHANGED objs

\* unmap, from __gvt_cache_find_dma_addr to the kref_put
cop_unmap_find(t) ==
    /\ cop[t].pc = "find"
    /\ cop[t].op = "unmap"
    /\ LET found == __gvt_cache_find_dma_addr(Cache, cop[t].dma_addr)
       IN IF found = {}
          THEN /\ cop' = [cop EXCEPT ![t].pc = "unlock"]
               /\ UNCHANGED <<objs, pinned, mapped>>
          ELSE \E entry \in found :
                  IF objs[entry].ref > 1
                  THEN /\ objs' = [objs EXCEPT ![entry].ref = @ - 1]
                       /\ cop' = [cop EXCEPT ![t].pc = "unlock"]
                       /\ UNCHANGED <<pinned, mapped>>
                  ELSE cop_release(t, entry)
    /\ UNCHANGED <<gfn_cache, dma_addr_cache, cache_lock>>
    /\ cop_frame

\* one iteration of the loop of the notifier, up to gvt_dma_unmap_page
cop_notifier_find(t) ==
    /\ cop[t].pc = "find"
    /\ cop[t].op = "notifier"
    /\ IF ~(cop[t].gfn < cop[t].end)
       THEN /\ cop' = [cop EXCEPT ![t].pc = "unlock"]
            /\ UNCHANGED <<objs, pinned, mapped>>
       ELSE LET found == __gvt_cache_find_gfn(Cache, cop[t].gfn)
            IN IF found = {}
               THEN /\ cop' = [cop EXCEPT ![t].gfn = @ + 1]
                    /\ UNCHANGED <<objs, pinned, mapped>>
               ELSE \E entry \in found : cop_release(t, entry)
    /\ UNCHANGED <<gfn_cache, dma_addr_cache, cache_lock>>
    /\ cop_frame

\* one iteration of the loop of gvt_cache_destroy, up to gvt_dma_unmap_page
cop_destroy_find(t) ==
    /\ cop[t].pc = "find"
    /\ cop[t].op = "destroy"
    /\ IF rb_first(Cache) = NULL
       THEN /\ cop' = [cop EXCEPT ![t].pc = "unlock"]
            /\ UNCHANGED <<objs, pinned, mapped>>
       ELSE cop_release(t, rb_first(Cache))
    /\ UNCHANGED <<gfn_cache, dma_addr_cache, cache_lock>>
    /\ cop_frame

\* __gvt_cache_remove_entry: rb_erase from gfn_cache
cop_erase_gfn(t) ==
    /\ cop[t].pc = "erase_gfn"
    /\ gfn_cache' = gfn_cache \ {cop[t].entry}
    /\ cop' = [cop EXCEPT ![t].pc = "erase_dma"]
    /\ UNCHANGED <<dma_addr_cache, objs, pinned, mapped, cache_lock>>
    /\ cop_frame

\* __gvt_cache_remove_entry: rb_erase from dma_addr_cache and kfree; the
\* notifier goes on with the next gfn, gvt_cache_destroy unlocks and comes
\* back
cop_erase_dma(t) ==
    /\ cop[t].pc = "erase_dma"
    /\ dma_addr_cache' = dma_addr_cache \ {cop[t].entry}
    /\ objs' = [objs EXCEPT ![cop[t].entry] = Free]
    /\ cop' = [cop EXCEPT
                 ![t] = IF cop[t].op = "notifier"
                        THEN [@ EXCEPT !.pc = "find", !.gfn = @ + 1,
                                       !.entry = NULL]
                        ELSE [@ EXCEPT !.pc = "unlock", !.entry = NULL,
                                       !.again = (cop[t].op = "destroy")]]
    /\ UNCHANGED <<gfn_cache, pinned, mapped, cache_lock>>
    /\ cop_frame

(* ------------------ the table operations, step by step ----------------- *)
\* what the steps of a table operation leave alone
pop_frame ==
    UNCHANGED <<cache_vars, memslots, last, scenario, vgpu_handle, vdev, info,
                active, rel, hooks, rw, fds, group_kvm, others, order, io,
                cache_lock, cop, opn, held>>

\* the locks a thread holds without the lock it releases
Unlocked(locks, lock) == SelectSeq(locks, LAMBDA l : l # lock)

\* a thread enters kvmgt_write_protect_add ("add") or
\* kvmgt_write_protect_remove ("remove") with a valid handle, or kvm calls
\* kvmgt_page_track_flush_slot ("flush") for a slot
pop_call(t, op, gfn, slot) ==
    /\ pop[t].pc = "idle"
    /\ pop' = [pop EXCEPT
                 ![t] = [NoPop EXCEPT
                           !.pc = IF op = "flush" THEN "spin_lock"
                                  ELSE "srcu_read_lock",
                           !.op = op, !.gfn = gfn, !.slot = slot]]
    /\ UNCHANGED <<ptable, gfn_track, mmu_lock>>
    /\ pop_frame

\* idx = srcu_read_lock(&kvm->srcu)
pop_srcu_read_lock(t) ==
    /\ pop[t].pc = "srcu_read_lock"
    /\ pop' = [pop EXCEPT ![t].pc = "slot",
                          ![t].locks = Append(@, "srcu")]
    /\ UNCHANGED <<ptable, gfn_track, mmu_lock>>
    /\ pop_frame

\* the slot lookup returning -EINVAL without srcu_read_unlock
pop_slot_keeps_srcu(t) ==
    /\ pop[t].pc = "slot"
    /\ pop' = [pop EXCEPT
                 ![t] = IF gfn_to_memslot(pop[t].gfn) = {}
                        THEN [@ EXCEPT !.pc = "idle", !.ret = -EINVAL]
                        ELSE [@ EXCEPT !.pc = "spin_lock"]]
    /\ UNCHANGED <<ptable, gfn_track, mmu_lock>>
    /\ pop_frame

\* slot = gfn_to_memslot(kvm, gfn); if (!slot) the thread goes to its
\* srcu_read_unlock and returns -EINVAL
pop_slot(t) ==
    /\ pop[t].pc = "slot"
    /\ pop' = [pop EXCEPT
                 ![t] = IF gfn_to_memslot(pop[t].gfn) = {}
                        THEN [@ EXCEPT !.pc = "srcu_read_unlock",
                                       !.ret = -EINVAL]
                        ELSE [@ EXCEPT !.pc = "spin_lock"]]
    /\ UNCHANGED <<ptable, gfn_track, mmu_lock>>
    /\ pop_frame

\* spin_lock(&kvm->mmu_lock)
pop_spin_lock(t) ==
    /\ pop[t].pc = "spin_lock"
    /\ mmu_lock = "free"
    /\ mmu_lock' = t
    /\ pop' = [pop EXCEPT ![t].pc = "body",
                          ![t].locks = Append(@, "mmu_lock")]
    /\ UNCHANGED <<ptable, gfn_track>>
    /\ pop_frame

\* what the operation does between spin_lock and spin_unlock; alloc:
\* whether the kzalloc of kvmgt_protect_table_add succeeds
pop_body(t, alloc) ==
    /\ pop[t].pc = "body"
    /\ LET gfn == pop[t].gfn
           is_wp == kvmgt_gfn_is_write_protected(ptable, gfn)
       IN IF pop[t].op = "add"
          THEN IF is_wp THEN UNCHANGED <<ptable, gfn_track>>
               ELSE /\ gfn_track[gfn] < MaxTrack
                    /\ gfn_track' =
                           kvm_slot_page_track_add_page(gfn_track, gfn)
                    /\ ptable' = kvmgt_protect_table_add(ptable, gfn, alloc)
          ELSE IF pop[t].op = "remove"
          THEN IF ~is_wp THEN UNCHANGED <<ptable, gfn_track>>
               ELSE /\ gfn_track' =
                           kvm_slot_page_track_remove_page(gfn_track, gfn)
                    /\ ptable' = kvmgt_protect_table_del(ptable, gfn)
          ELSE LET r == flush_slot_from(ptable, gfn_track, pop[t].slot, 0)
               IN /\ ptable' = r.ptable
                  /\ gfn_track' = r.gfn_track
    /\ pop' = [pop EXCEPT ![t].pc = "spin_unlock"]
    /\ UNCHANGED mmu_lock
    /\ pop_frame

\* spin_unlock(&kvm->mmu_lock); kvmgt_page_track_flush_slot returns
pop_spin_unlock(t) ==
    /\ pop[t].pc = "spin_unlock"
    /\ mmu_lock' = IF mmu_lock = t THEN "free" ELSE mmu_lock
    /\ pop' = [pop EXCEPT
                 ![t] = IF pop[t].op = "flush" THEN NoPop
                        ELSE [@ EXCEPT !.pc = "srcu_read_unlock",
                                       !.locks = Unlocked(@, "mmu_lock")]]
    /\ UNCHANGED <<ptable, gfn_track>>
    /\ pop_frame

\* srcu_read_unlock(&kvm->srcu, idx) and the return
pop_srcu_read_unlock(t) ==
    /\ pop[t].pc = "srcu_read_unlock"
    /\ pop' = [pop EXCEPT ![t] = [@ EXCEPT !.pc = "idle",
                                         !.locks = Unlocked(@, "srcu")]]
    /\ UNCHANGED <<ptable, gfn_track, mmu_lock>>
    /\ pop_frame

(* --------------------- intel_vgpu_open, step by step ------------------- *)
\* what no step of an open changes
opn_frame ==
    UNCHANGED <<objs, pinned, mapped, destroy_pc, gfn_track, memslots,
                scenario, rel, rw, group_kvm, io, cache_lock, cop, mmu_lock,
                pop, held>>

\* what opn["self"] becomes when intel_vgpu_open returns ret
Returned(ret) == [NoOpn EXCEPT !.ret = ret, !.returned = TRUE]

\* vfio calls intel_vgpu_open of this vGPU
open_call ==
    /\ opn["self"].pc = "idle"
    /\ fds < MaxFds
    /\ opn' = [opn EXCEPT !["self"] = [NoOpn EXCEPT !.pc = "reg_iommu"]]
    /\ UNCHANGED <<gfn_cache, dma_addr_cache, ptable, last, vgpu_handle,
                   vdev, info, active, hooks, fds, others, order>>
    /\ opn_frame

\* vfio_register_notifier(..., VFIO_IOMMU_NOTIFY, ...) returning ret
open_reg_iommu(ret) ==
    /\ opn["self"].pc = "reg_iommu"
    /\ IF ret # 0
       THEN /\ opn' = [opn EXCEPT !["self"] = Returned(ret)]
            /\ UNCHANGED vdev
       ELSE /\ opn' = [opn EXCEPT !["self"].pc = "reg_group"]
            /\ vdev' = [vdev EXCEPT !.iommu_notifier = @ + 1]
    /\ UNCHANGED <<gfn_cache, dma_addr_cache, ptable, last, vgpu_handle,
                   info, active, hooks, fds, others, order>>
    /\ opn_frame

\* vfio_register_notifier(..., VFIO_GROUP_NOTIFY, ...) returning ret; on
\* success vfio calls the notifier with the kvm of the group when it has
\* one, on failure the open goes to undo_iommu
open_reg_group(ret) ==
    /\ opn["self"].pc = "reg_group"
    /\ IF ret # 0
       THEN /\ opn' = [opn EXCEPT !["self"] = Returned(ret)]
            /\ vdev' = [vdev EXCEPT !.iommu_notifier = @ - 1]
       ELSE /\ opn' = [opn EXCEPT !["self"].pc = "guest_init"]
            /\ vdev' = [vdev EXCEPT
                          !.group_notifier = @ + 1,
                          !.kvm = IF group_kvm # NULL THEN group_kvm ELSE @]
    /\ UNCHANGED <<gfn_cache, dma_addr_cache, ptable, last, vgpu_handle,
                   info, active, hooks, fds, others, order>>
    /\ opn_frame

\* kvmgt_guest_init up to the return of __kvmgt_vgpu_exist; a failure
\* takes the open to undo_group
open_guest_init(same_mm) ==
    /\ opn["self"].pc = "guest_init"
    /\ LET ret == kvmgt_guest_init(vdev.kvm, same_mm, TRUE)
       IN opn' = [opn EXCEPT
                    !["self"] = IF ret # 0
                                THEN [@ EXCEPT !.pc = "undo", !.ret = ret]
                                ELSE [@ EXCEPT !.pc = "bind",
                                               !.kvm = vdev.kvm]]
    /\ UNCHANGED <<gfn_cache, dma_addr_cache, ptable, last, vgpu_handle,
                   vdev, info, active, hooks, fds, others, order>>
    /\ opn_frame

\* kvmgt_guest_init from its vzalloc on: the handle, the guest info, the
\* empty table and cache, the page-track notifier
open_bind(alloc) ==
    /\ opn["self"].pc = "bind"
    /\ IF ~alloc
       THEN /\ opn' = [opn EXCEPT !["self"].pc = "undo",
                                  !["self"].ret = -ENOMEM]
            /\ UNCHANGED <<gfn_cache, dma_addr_cache, ptable, vgpu_handle,
                           info, hooks, order>>
       ELSE /\ opn' = [opn EXCEPT !["self"].pc = "set_opregion"]
            /\ vgpu_handle' = InfoPtr
            /\ info' = [kvm |-> opn["self"].kvm, track_node |-> TRUE]
            /\ ptable' = [g \in GFNs |-> 0]
            /\ gfn_cache' = {}
            /\ dma_addr_cache' = {}
            /\ hooks' = [h \in HookNames |-> 0]
            /\ order' = <<>>
    /\ UNCHANGED <<last, vdev, active, fds, others>>
    /\ opn_frame

\* undo_group and undo_iommu, then the return of the error
open_undo ==
    /\ opn["self"].pc = "undo"
    /\ vdev' = [vdev EXCEPT
                   !.group_notifier = IF @ > 0 THEN @ - 1 ELSE @,
                   !.iommu_notifier = IF @ > 0 THEN @ - 1 ELSE @]
    /\ opn' = [opn EXCEPT !["self"] = Returned(opn["self"].ret)]
    /\ UNCHANGED <<gfn_cache, dma_addr_cache, ptable, last, vgpu_handle,
                   info, active, hooks, fds, others, order>>
    /\ opn_frame

\* kvmgt_set_opregion(vgpu) and kvmgt_init_migration(vgpu); regs counts the
\* regions this open has registered
open_regions(opregion, migration) ==
    /\ opn["self"].pc = "set_opregion"
    /\ vdev' = kvmgt_init_migration(kvmgt_set_opregion(vdev, opregion),
                                    migration)
    /\ opn' = [opn EXCEPT !["self"].pc = "activate",
                          !["self"].regs = vdev'.num_regions
                                               - vdev.num_regions]
    /\ UNCHANGED <<gfn_cache, dma_addr_cache, ptable, last, vgpu_handle,
                   info, active, hooks, fds, others, order>>
    /\ opn_frame

\* intel_gvt_ops->vgpu_activate(vgpu)
open_activate ==
    /\ opn["self"].pc = "activate"
    /\ active' = TRUE
    /\ opn' = [opn EXCEPT !["self"].pc = "set_released"]
    /\ UNCHANGED <<gfn_cache, dma_addr_cache, ptable, last, vgpu_handle,
                   vdev, info, hooks, fds, others, order>>
    /\ opn_frame

\* atomic_set(&vgpu->vdev.released, 0) and return 0
open_return ==
    /\ opn["self"].pc = "set_released"
    /\ vdev' = [vdev EXCEPT !.released = 0]
    /\ fds' = fds + 1
    /\ opn' = [opn EXCEPT !["self"] = [Returned(0) EXCEPT
                                         !.regs = opn["self"].regs]]
    /\ UNCHANGED <<gfn_cache, dma_addr_cache, ptable, last, vgpu_handle,
                   info, active, hooks, others, order>>
    /\ opn_frame

\* Another vGPU of the same gvt device runs kvmgt_guest_init for the guest
\* kvm: __kvmgt_vgpu_exist, which looks at this vGPU when it is active
other_guest_init(kvm) ==
    /\ opn["other"].pc = "idle"
    /\ ~opn["other"].bound
    /\ opn' = [opn EXCEPT
                 !["other"] =
                     IF active /\ handle_valid(vgpu_handle) /\ info.kvm = kvm
                     THEN [NoOpn EXCEPT !.ret = -EEXIST, !.returned = TRUE]
                     ELSE [NoOpn EXCEPT !.pc = "bind", !.kvm = kvm]]
    /\ UNCHANGED <<gfn_cache, dma_addr_cache, ptable, last, vgpu_handle,
                   vdev, info, active, hooks, fds, others, order>>
    /\ opn_frame

\* the other vGPU sets its handle
other_bind ==
    /\ opn["other"].pc = "bind"
    /\ opn' = [opn EXCEPT !["other"].pc = "activate",
                          !["other"].bound = TRUE]
    /\ UNCHANGED <<gfn_cache, dma_addr_cache, ptable, last, vgpu_handle,
                   vdev, info, active, hooks, fds, others, order>>
    /\ opn_frame

\* the other vGPU is activated and its open returns: from now on
\* for_each_active_vgpu shows it to this vGPU
other_activate ==
    /\ opn["other"].pc = "activate"
    /\ others' = others \cup {opn["other"].kvm}
    /\ opn' = [opn EXCEPT !["other"].pc = "idle",
                          !["other"].returned = TRUE]
    /\ UNCHANGED <<gfn_cache, dma_addr_cache, ptable, last, vgpu_handle,
                   vdev, info, active, hooks, fds, order>>
    /\ opn_frame

(* --------------------------- specifications ---------------------------- *)
Init ==
    /\ gfn_cache = {}
    /\ dma_addr_cache = {}
    /\ objs = [e \in ObjIds |-> Free]
    /\ pinned = [g \in GFNs |-> 0]
    /\ mapped = [d \in DmaAddrs |-> 0]
    /\ destroy_pc = "idle"
    /\ ptable = [g \in GFNs |-> 0]
    /\ gfn_track = [g \in GFNs |-> 0]
    /\ memslots = {}
    /\ last = Call("none", None, None, None, 0, FALSE, 0)
    /\ scenario = NoScenario
    /\ InitDevice
    /\ others = {}

\* The operations on the DMA cache of one vGPU.  An input the call does not
\* read (the gfn or address with a handle that is not valid, the host's
\* outcome when the gfn has an entry, the allocation when nothing was
\* mapped, the range of an event that is no unmap) is not varied, and of
\* the ranges that cover the same gfns (the empty ones, those that end past
\* the last gfn) one is taken.
MapOp(on) ==
    \E h \in Handles, g \in GFNs, host \in HostOutcomes, a \in BOOLEAN :
        /\ ~handle_valid(h) => g = 0
        /\ (~handle_valid(h) \/ __gvt_cache_find_gfn(Cache, g) # {})
              => ~host.pin
        /\ host.dma = None => a
        /\ kvmgt_dma_map_guest_page(h, g, host, a)
        /\ Track(on, g, None)

UnmapOp(on) ==
    \E h \in Handles, d \in DmaAddrs :
        /\ ~handle_valid(h) => d = 1
        /\ kvmgt_dma_unmap_guest_page(h, d)
        /\ Track(on, None, d)

NotifyOp(on) ==
    \E u \in BOOLEAN, g \in GFNs, n \in 0..(MaxGfn + 1) :
        /\ ~u => (g = 0 /\ n = 0)
        /\ n = 0 => g = 0
        /\ g + n <= MaxGfn + 1
        /\ intel_vgpu_iommu_notifier(u, g, n)
        /\ Track(on, None, None)

DestroyCallOp(on) == gvt_cache_destroy_call /\ Track(on, None, None)

DestroyStepOp(on) == gvt_cache_destroy_step /\ Track(on, None, None)

\* the operations, in any order
Next ==
    \/ MapOp(FALSE) /\ UNCHANGED <<pt_vars, dev_vars>>
    \/ UnmapOp(FALSE) /\ UNCHANGED <<pt_vars, dev_vars>>
    \/ NotifyOp(FALSE) /\ UNCHANGED <<pt_vars, dev_vars>>
    \/ DestroyCallOp(FALSE) /\ UNCHANGED <<pt_vars, dev_vars>>
    \/ DestroyStepOp(FALSE) /\ UNCHANGED <<pt_vars, dev_vars>>

Spec == Init /\ [][Next]_vars

\* the iterations of gvt_cache_destroy are run by a thread that is
\* scheduled and gets the mutex again and again
FairSpec ==
    Spec /\ WF_vars(DestroyStepOp(FALSE) /\ UNCHANGED <<pt_vars, dev_vars>>)

\* the same operations, with the map/unmap run followed
NextRun ==
    \/ MapOp(TRUE) /\ UNCHANGED <<pt_vars, dev_vars>>
    \/ UnmapOp(TRUE) /\ UNCHANGED <<pt_vars, dev_vars>>
    \/ NotifyOp(TRUE) /\ UNCHANGED <<pt_vars, dev_vars>>
    \/ DestroyCallOp(TRUE) /\ UNCHANGED <<pt_vars, dev_vars>>
    \/ DestroyStepOp(TRUE) /\ UNCHANGED <<pt_vars, dev_vars>>

SpecRun == Init /\ [][NextRun]_vars

\* a guest with any slot layout
InitPT ==
    /\ gfn_cache = {}
    /\ dma_addr_cache = {}
    /\ objs = [e \in ObjIds |-> Free]
    /\ pinned = [g \in GFNs |-> 0]
    /\ mapped = [d \in DmaAddrs |-> 0]
    /\ destroy_pc = "idle"
    /\ ptable = [g \in GFNs |-> 0]
    /\ gfn_track = [g \in GFNs |-> 0]
    /\ memslots \in SlotLayouts
    /\ last = Call("none", None, None, None, 0, FALSE, 0)
    /\ scenario = NoScenario
    /\ InitDevice
    /\ others = {}

\* the operations on the protection table of one guest, in any order
NextPT ==
    \/ \E h \in Handles, g \in GFNs, a \in BOOLEAN :
          /\ kvmgt_write_protect_add(h, g, a)
          /\ UNCHANGED <<cache_vars, scenario, dev_vars>>
    \/ \E h \in Handles, g \in GFNs :
          /\ kvmgt_write_protect_remove(h, g)
          /\ UNCHANGED <<cache_vars, scenario, dev_vars>>
    \/ \E g \in GFNs :
          /\ kvmgt_page_track_write(g)
          /\ UNCHANGED <<cache_vars, scenario, dev_vars>>
    \/ \E sl \in memslots :
          /\ kvmgt_page_track_flush_slot(sl)
          /\ UNCHANGED <<cache_vars, scenario, dev_vars>>

SpecPT == InitPT /\ [][NextPT]_vars

\* the calls that take the handle and a gfn, on a guest with any slot layout
NextErr ==
    \/ MapOp(FALSE) /\ UNCHANGED <<pt_vars, dev_vars>>
    \/ \E h \in Handles, g \in GFNs, a \in BOOLEAN :
          /\ kvmgt_write_protect_add(h, g, a)
          /\ UNCHANGED <<cache_vars, scenario, dev_vars>>
    \/ \E h \in Handles, g \in GFNs :
          /\ kvmgt_write_protect_remove(h, g)
          /\ UNCHANGED <<cache_vars, scenario, dev_vars>>

SpecErr == InitPT /\ [][NextErr]_vars

\* One vGPU from its creation on, in a guest whose one slot holds every
\* gfn, beside any other bound vGPUs.
InitDev ==
    /\ gfn_cache = {}
    /\ dma_addr_cache = {}
    /\ objs = [e \in ObjIds |-> Free]
    /\ pinned = [g \in GFNs |-> 0]
    /\ mapped = [d \in DmaAddrs |-> 0]
    /\ destroy_pc = "idle"
    /\ ptable = [g \in GFNs |-> 0]
    /\ gfn_track = [g \in GFNs |-> 0]
    /\ memslots = {[base_gfn |-> 0, npages |-> MaxGfn + 1]}
    /\ last = Call("none", None, None, None, 0, FALSE, 0)
    /\ scenario = NoScenario
    /\ InitDevice
    /\ others \in SUBSET KVMs

\* no release path is between its first and its last step
Quiescent == \A t \in Releasers : rel[t] = "idle"

\* intel_vgpu_open with every outcome of its calls; an outcome of a call
\* that is not reached is not varied.  Opens, maps and adds are issued
\* while no release is in flight.
OpenOp ==
    \E iommu_ret \in {0, -EINVAL}, group_ret \in {0, -EINVAL},
       same_mm \in BOOLEAN, alloc \in BOOLEAN,
       opregion \in OpregionStates, migration \in BOOLEAN :
        /\ iommu_ret # 0 => group_ret = 0
        /\ (iommu_ret # 0 \/ group_ret # 0) => (same_mm /\ alloc)
        /\ (~same_mm \/ ~alloc) => (opregion = "signed" /\ migration)
        /\ ~same_mm => alloc
        /\ Quiescent
        /\ intel_vgpu_open(iommu_ret, group_ret, same_mm, alloc,
                           opregion, migration)
        /\ UNCHANGED scenario

\* the session's map and add calls that fill the cache and the table
MapDev ==
    /\ handle_valid(vgpu_handle)
    /\ Quiescent
    /\ gfn_cache = {}
    /\ kvmgt_dma_map_guest_page(
           vgpu_handle, 0, [pin |-> TRUE, pfn_valid |-> TRUE, dma |-> 1], TRUE)
    /\ UNCHANGED <<pt_vars, dev_vars, scenario>>

AddDev ==
    /\ handle_valid(vgpu_handle)
    /\ Quiescent
    /\ ptable[0] = 0
    /\ kvmgt_write_protect_add(vgpu_handle, 0, TRUE)
    /\ UNCHANGED <<cache_vars, dev_vars, scenario>>

\* a read of the first byte of the first region
RwEnterDev ==
    rw_enter(VFIO_PCI_NUM_REGIONS, 0, 1, FALSE) /\ UNCHANGED scenario

RwHandlerDev ==
    /\ rw_handler([copy_ok |-> TRUE, state |-> "other", save_restore |-> 0])
    /\ UNCHANGED scenario

NextDev ==
    \/ OpenOp
    \/ \E data \in {NULL} \cup KVMs :
          vfio_group_set_kvm(data) /\ UNCHANGED scenario
    \/ intel_vgpu_release /\ UNCHANGED scenario
    \/ intel_vgpu_release_work /\ UNCHANGED scenario
    \/ \E t \in Releasers : release_cmpxchg(t) /\ UNCHANGED scenario
    \/ \E t \in Releasers : release_deactivate(t) /\ UNCHANGED scenario
    \/ \E t \in Releasers : release_regions(t) /\ UNCHANGED scenario
    \/ \E t \in Releasers : release_unregister(t, 0, 0) /\ UNCHANGED scenario
    \/ \E t \in Releasers : release_guest_exit(t) /\ UNCHANGED scenario
    \/ \E t \in Releasers : release_finish(t) /\ UNCHANGED scenario
    \/ DestroyStepOp(FALSE) /\ UNCHANGED <<pt_vars, dev_vars>>
    \/ MapDev
    \/ AddDev
    \/ RwEnterDev
    \/ RwHandlerDev

SpecDev == InitDev /\ [][NextDev]_vars

\* One open device with any of its regions registered, and the reads and
\* writes dispatched to it one after the other.
InitRW ==
    /\ gfn_cache = {}
    /\ dma_addr_cache = {}
    /\ objs = [e \in ObjIds |-> Free]
    /\ pinned = [g \in GFNs |-> 0]
    /\ mapped = [d \in DmaAddrs |-> 0]
    /\ destroy_pc = "idle"
    /\ ptable = [g \in GFNs |-> 0]
    /\ gfn_track = [g \in GFNs |-> 0]
    /\ memslots = {}
    /\ last = Call("open", None, None, None, 0, FALSE, 2)
    /\ scenario = NoScenario
    /\ vgpu_handle = InfoPtr
    /\ \E opregion \in OpregionStates, migration \in BOOLEAN :
          vdev = kvmgt_init_migration(
                     kvmgt_set_opregion(
                         [kvm |-> 1, released |-> 0, num_regions |-> 0,
                          region |-> <<>>, iommu_notifier |-> 1,
                          group_notifier |-> 1, release_work |-> FALSE,
                          msi_trigger |-> NULL],
                         opregion),
                     migration)
    /\ info = [kvm |-> 1, track_node |-> TRUE]
    /\ active = TRUE
    /\ rel = [t \in Releasers |-> "idle"]
    /\ hooks = [h \in HookNames |-> 0]
    /\ rw = NoRw
    /\ fds = 1
    /\ group_kvm = 1
    /\ others = {}
    /\ order = <<>>
    /\ io = NoIo
    /\ InitConc

NextRW ==
    \/ \E index \in VFIO_PCI_NUM_REGIONS..(VFIO_PCI_NUM_REGIONS + 2),
          pos \in 0..(MaxRegionSize + 1),
          count \in 0..(MaxRegionSize + 1), is_write \in BOOLEAN :
          rw_enter(index, pos, count, is_write) /\ UNCHANGED scenario
    \/ \E user \in UserOutcomes :
          rw_handler(user) /\ UNCHANGED scenario

SpecRW == InitRW /\ [][NextRW]_vars

\* a closed device that is opened and whose regions are then read and
\* written
NextSetup ==
    \/ OpenOp
    \/ \E data \in KVMs : vfio_group_set_kvm(data) /\ UNCHANGED scenario
    \/ \E index \in VFIO_PCI_NUM_REGIONS..(VFIO_PCI_NUM_REGIONS + 1),
          pos \in 0..(MaxRegionSize + 1),
          count \in 0..(MaxRegionSize + 1), is_write \in BOOLEAN :
          rw_enter(index, pos, count, is_write) /\ UNCHANGED scenario
    \/ \E user \in UserOutcomes :
          rw_handler(user) /\ UNCHANGED scenario

SpecSetup == InitDev /\ [][NextSetup]_vars

\* an open session on a guest with one memory slot
InitDown ==
    /\ gfn_cache = {}
    /\ dma_addr_cache = {}
    /\ objs = [e \in ObjIds |-> Free]
    /\ pinned = [g \in GFNs |-> 0]
    /\ mapped = [d \in DmaAddrs |-> 0]
    /\ destroy_pc = "idle"
    /\ ptable = [g \in GFNs |-> 0]
    /\ gfn_track = [g \in GFNs |-> 0]
    /\ memslots = {[base_gfn |-> 0, npages |-> MaxGfn + 1]}
    /\ last = Call("open", None, None, None, 0, FALSE, 2)
    /\ scenario = NoScenario
    /\ vgpu_handle = InfoPtr
    /\ \E opregion \in OpregionStates, migration \in BOOLEAN :
          vdev = kvmgt_init_migration(
                     kvmgt_set_opregion(
                         [kvm |-> 1, released |-> 0, num_regions |-> 0,
                          region |-> <<>>, iommu_notifier |-> 1,
                          group_notifier |-> 1, release_work |-> FALSE,
                          msi_trigger |-> NULL],
                         opregion),
                     migration)
    /\ info = [kvm |-> 1, track_node |-> TRUE]
    /\ active = TRUE
    /\ rel = [t \in Releasers |-> "idle"]
    /\ hooks = [h \in HookNames |-> 0]
    /\ rw = NoRw
    /\ fds = 1
    /\ group_kvm = 1
    /\ others = {}
    /\ order = <<>>
    /\ io = NoIo
    /\ InitConc

\* the steps of __intel_vgpu_release after the guard, for the caller t;
\* each vfio_unregister_notifier may fail
ReleaseStep(t) ==
    /\ \/ release_deactivate(t)
       \/ release_regions(t)
       \/ \E iommu_ret \in {0, -EINVAL}, group_ret \in {0, -EINVAL} :
             release_unregister(t, iommu_ret, group_ret)
       \/ release_guest_exit(t)
       \/ release_finish(t)
    /\ UNCHANGED scenario

\* the session fills the cache and the table; the close of the device file
\* and the release work then race for the teardown
NextDown ==
    \/ MapDev
    \/ AddDev
    \/ vfio_group_set_kvm(NULL) /\ UNCHANGED scenario
    \/ intel_vgpu_release /\ UNCHANGED scenario
    \/ intel_vgpu_release_work /\ UNCHANGED scenario
    \/ \E t \in Releasers : release_cmpxchg(t) /\ UNCHANGED scenario
    \/ \E t \in Releasers : ReleaseStep(t)
    \/ DestroyStepOp(FALSE) /\ UNCHANGED <<pt_vars, dev_vars>>

SpecDown == InitDown /\ [][NextDown]_vars

\* a thread inside __intel_vgpu_release or gvt_cache_destroy keeps running
FairSpecDown ==
    /\ SpecDown
    /\ \A t \in Releasers : WF_vars(ReleaseStep(t))
    /\ WF_vars(DestroyStepOp(FALSE) /\ UNCHANGED <<pt_vars, dev_vars>>)

\* A user of the cache maps a gfn it holds nothing for and keeps the
\* address it was given; after: another user's mapping had been
\* invalidated before this map.
UserMap(u) ==
    /\ held[u].state = "none"
    /\ \E g \in GFNs, host \in HostOutcomes, a \in BOOLEAN :
          /\ __gvt_cache_find_gfn(Cache, g) # {} => ~host.pin
          /\ host.dma = None => a
          /\ kvmgt_dma_map_guest_page(InfoPtr, g, host, a)
          /\ held' = IF last'.ret = 0
                     THEN [held EXCEPT
                              ![u] = [gfn |-> g,
                                      dma_addr |-> last'.dma_addr,
                                      state |-> "mapped",
                                      after |-> \E w \in Users :
                                                  held[w].state = "stale"]]
                     ELSE held
    /\ UNCHANGED <<pt_vars, scenario, vgpu_handle, vdev, info, active, rel,
                   hooks, rw, fds, group_kvm, others, order, io,
                   cache_lock, cop, mmu_lock, pop, opn>>

\* the user gives back the address it holds, whether or not the mapping
\* behind it was invalidated meanwhile
UserUnmap(u) ==
    /\ held[u].state # "none"
    /\ kvmgt_dma_unmap_guest_page(InfoPtr, held[u].dma_addr)
    /\ held' = [held EXCEPT ![u] = NoHeld]
    /\ UNCHANGED <<pt_vars, scenario, vgpu_handle, vdev, info, active, rel,
                   hooks, rw, fds, group_kvm, others, order, io,
                   cache_lock, cop, mmu_lock, pop, opn>>

\* the iommu notifier removes the entries of a range; the users whose
\* entry it removes are not told
UserInvalidate ==
    /\ \E g \in GFNs, n \in 1..(MaxGfn + 1) :
          /\ g + n <= MaxGfn + 1
          /\ intel_vgpu_iommu_notifier(TRUE, g, n)
          /\ held' = [u \in Users |->
                        IF /\ held[u].state = "mapped"
                           /\ \E e \in gfn_cache \ gfn_cache' :
                                 /\ objs[e].gfn = held[u].gfn
                                 /\ objs[e].dma_addr = held[u].dma_addr
                        THEN [held[u] EXCEPT !.state = "stale"]
                        ELSE held[u]]
    /\ UNCHANGED <<pt_vars, scenario, vgpu_handle, vdev, info, active, rel,
                   hooks, rw, fds, group_kvm, others, order, io,
                   cache_lock, cop, mmu_lock, pop, opn>>

NextHeld ==
    \/ \E u \in Users : UserMap(u)
    \/ \E u \in Users : UserUnmap(u)
    \/ UserInvalidate

SpecHeld == Init /\ [][NextHeld]_vars

\* two threads run the cache operations of one vGPU against each other
NextLock ==
    \/ \E t \in CacheThreads, g \in GFNs :
          cop_call(t, "map", g, None, None)
    \/ \E t \in CacheThreads, d \in DmaAddrs :
          cop_call(t, "unmap", None, d, None)
    \/ \E t \in CacheThreads, g \in GFNs, n \in 1..(MaxGfn + 1) :
          g + n <= MaxGfn + 1 /\ cop_call(t, "notifier", g, None, g + n)
    \/ \E t \in CacheThreads : cop_call(t, "destroy", None, None, None)
    \/ \E t \in CacheThreads : cache_mutex_lock(t)
    \/ \E t \in CacheThreads : cache_mutex_unlock(t)
    \/ \E t \in CacheThreads, host \in HostOutcomes, alloc \in BOOLEAN :
          /\ __gvt_cache_find_gfn(Cache, cop[t].gfn) # {} => ~host.pin
          /\ host.dma = None => alloc
          /\ cop_map_find(t, host, alloc)
    \/ \E t \in CacheThreads : cop_add_gfn(t)
    \/ \E t \in CacheThreads : cop_add_dma(t)
    \/ \E t \in CacheThreads : cop_unmap_find(t)
    \/ \E t \in CacheThreads : cop_notifier_find(t)
    \/ \E t \in CacheThreads : cop_destroy_find(t)
    \/ \E t \in CacheThreads : cop_erase_gfn(t)
    \/ \E t \in CacheThreads : cop_erase_dma(t)

SpecLock == Init /\ [][NextLock]_vars

\* two threads run the table operations of one guest against each other
NextPL ==
    \/ \E t \in TableThreads, op \in {"add", "remove"}, g \in GFNs :
          pop_call(t, op, g, NoSlot)
    \/ \E t \in TableThreads, sl \in memslots :
          pop_call(t, "flush", None, sl)
    \/ \E t \in TableThreads : pop_srcu_read_lock(t)
    \/ \E t \in TableThreads : pop_slot(t)
    \/ \E t \in TableThreads : pop_spin_lock(t)
    \/ \E t \in TableThreads, alloc \in BOOLEAN :
          /\ ~alloc => (/\ pop[t].op = "add"
                        /\ ~kvmgt_gfn_is_write_protected(ptable, pop[t].gfn))
          /\ pop_body(t, alloc)
    \/ \E t \in TableThreads : pop_spin_unlock(t)
    \/ \E t \in TableThreads : pop_srcu_read_unlock(t)

SpecPL == InitPT /\ [][NextPL]_vars

\* This vGPU is opened while vfio changes the kvm of its group, the
\* release work runs and another vGPU is opened for the same guest.
NextOpen ==
    \/ open_call
    \/ \E ret \in {0, -EINVAL} : open_reg_iommu(ret)
    \/ \E ret \in {0, -EINVAL} : open_reg_group(ret)
    \/ \E same_mm \in BOOLEAN : open_guest_init(same_mm)
    \/ \E alloc \in BOOLEAN : open_bind(alloc)
    \/ open_undo
    \/ \E opregion \in {"mismatch", "signed"}, migration \in BOOLEAN :
          open_regions(opregion, migration)
    \/ open_activate
    \/ open_return
    \/ \E kvm \in KVMs : other_guest_init(kvm)
    \/ other_bind
    \/ other_activate
    \/ \E data \in {NULL} \cup KVMs :
          vfio_group_set_kvm(data) /\ UNCHANGED scenario
    \/ intel_vgpu_release_work /\ UNCHANGED scenario
    \/ release_cmpxchg("work") /\ UNCHANGED scenario
    \/ release_deactivate("work") /\ UNCHANGED scenario
    \/ release_regions("work") /\ UNCHANGED scenario
    \/ release_unregister("work", 0, 0) /\ UNCHANGED scenario
    \/ release_guest_exit("work") /\ UNCHANGED scenario
    \/ release_finish("work") /\ UNCHANGED scenario
    \/ DestroyStepOp(FALSE) /\ UNCHANGED <<pt_vars, dev_vars>>

SpecOpen == Init /\ [][NextOpen]_vars

\* One open device and a call on its file.  The reads and writes of the
\* fixed regions change nothing in the vGPU that this module keeps, so one
\* call from each state of the device stands for every call.
NextIO ==
    \/ /\ io.op = "none"
       /\ \E index \in 0..(VFIO_PCI_NUM_REGIONS - 1), pos \in 0..MaxPos,
             count \in 0..MaxCount, fail \in ChunkOutcomes :
             intel_vgpu_read(index, pos, count, fail) /\ UNCHANGED scenario
    \/ /\ io.op = "none"
       /\ \E index \in 0..(VFIO_PCI_NUM_REGIONS - 1), pos \in 0..MaxPos,
             count \in 0..MaxCount, fail \in ChunkOutcomes :
             intel_vgpu_write(index, pos, count, fail) /\ UNCHANGED scenario
    \/ /\ io.op = "none"
       /\ \E index \in 0..(VFIO_PCI_NUM_REGIONS + 2), q \in QueryOutcomes :
             /\ intel_vgpu_ioctl_get_region_info(index, q)
             /\ UNCHANGED scenario
    \/ /\ io.op = "none"
       /\ \E index \in 0..2, action \in {"mask", "unmask", "trigger"},
             data \in {"none", "bool", "eventfd"},
             trigger \in {NULL} \cup (1..MaxEventfd) :
             /\ data # "eventfd" => trigger = NULL
             /\ intel_vgpu_set_irqs(index, action, data, trigger)
             /\ UNCHANGED scenario
    \/ /\ io.op = "set_irqs"
       /\ vdev.msi_trigger # NULL
       /\ \E signalled \in BOOLEAN :
             kvmgt_inject_msi(vgpu_handle, signalled) /\ UNCHANGED scenario

SpecIO == InitRW /\ [][NextIO]_vars

(* ------------------------------ properties ----------------------------- *)
\* the entries linked into the gfn tree under one gfn, and into the address
\* tree under one address
EntriesOfGfn(g) == {e \in gfn_cache : objs[e].gfn = g}
EntriesOfAddr(d) == {e \in dma_addr_cache : objs[e].dma_addr = d}

\* C1: whatever map, unmap, the unmap notifier and the teardown did so far,
\* the cache holds at most one entry per gfn.
C1_OneEntryPerGfn == \A g \in GFNs : Cardinality(EntriesOfGfn(g)) <= 1

\* both gfns are cached, one of them after a second map, and teardown runs
C1_Witness ==
    /\ \A g \in GFNs : EntriesOfGfn(g) # {}
    /\ \E e \in gfn_cache : objs[e].ref > 1
    /\ last.op = "map" /\ last.hit
    /\ destroy_pc = "loop"

\* C2: the cache holds at most one entry per dma address, whatever
\* addresses the host returns.
C2_OneEntryPerDmaAddr == \A d \in DmaAddrs : Cardinality(EntriesOfAddr(d)) <= 1

\* C3: an address is host-mapped exactly if the cache holds an entry for it
\* with a refcount of at least 1, and a map that reports success leaves an
\* entry for its gfn.
C3_MappedIffEntry ==
    /\ [](\A d \in DmaAddrs :
            mapped[d] >= 1 <=> \E e \in EntriesOfAddr(d) : objs[e].ref >= 1)
    /\ [][\A h \in Handles, g \in GFNs, host \in HostOutcomes, a \in BOOLEAN :
            (kvmgt_dma_map_guest_page(h, g, host, a) /\ last'.ret = 0)
               => \E e \in gfn_cache' : objs'[e].gfn = g]_vars

\* C4: map(g) on a gfn without an entry and map(g) again return the same
\* address, pin and map once and leave one entry with refcount 2; the first
\* unmap of that address leaves refcount 1 and the second removes the entry
\* with one host unmap+unpin.
C4_MapMapUnmapUnmap ==
    LET es == EntriesOfGfn(scenario.gfn)
    IN /\ scenario.stage = 2 =>
            /\ last.dma_addr = scenario.dma_addr
            /\ scenario.maps = 1
            /\ Cardinality(es) = 1
            /\ \A e \in es : objs[e].ref = 2
       /\ scenario.stage = 3 =>
            /\ Cardinality(es) = 1
            /\ \A e \in es : objs[e].ref = 1
            /\ scenario.unmaps = 0
       /\ scenario.stage = 4 =>
            /\ es = {}
            /\ scenario.unmaps = 1

\* C5: a map that fails in vfio_pin_pages, on the pfn or in dma_map_page
\* returns the error and leaves the pins, the mappings and the cache as they
\* were.
C5_FailedMapLeavesNothing ==
    [][last'.op = "map" =>
       \A h \in {x \in Handles : handle_valid(x)} :
       \A g \in {x \in GFNs : EntriesOfGfn(x) = {}} :
       \A host \in {x \in HostOutcomes :
                       ~x.pin \/ ~x.pfn_valid \/ x.dma = None} :
       \A a \in BOOLEAN :
          kvmgt_dma_map_guest_page(h, g, host, a)
            => /\ last'.ret = IF host.pin /\ host.pfn_valid
                              THEN -ENOMEM ELSE -EINVAL
               /\ pinned' = pinned /\ mapped' = mapped
               /\ gfn_cache' = gfn_cache /\ dma_addr_cache' = dma_addr_cache
               /\ objs' = objs]_vars

\* dma_map_page failed on a pinned page while the cache holds an entry
C5_Witness ==
    /\ last.op = "map" /\ last.ret = -ENOMEM /\ last.calls = 1
    /\ gfn_cache # {}

\* C6: an unmap of an address without an entry changes nothing and makes no
\* host call.
C6_UnmapAbsentIsNoop ==
    [][last'.op = "unmap" =>
       \A h \in Handles, d \in DmaAddrs :
         (EntriesOfAddr(d) = {} /\ kvmgt_dma_unmap_guest_page(h, d))
            => /\ last'.calls = 0
               /\ pinned' = pinned /\ mapped' = mapped
               /\ gfn_cache' = gfn_cache /\ dma_addr_cache' = dma_addr_cache
               /\ objs' = objs]_vars

\* an unmap on a bound device found no entry while another address is cached
C6_Witness ==
    /\ last.op = "unmap" /\ handle_valid(last.handle) /\ ~last.hit
    /\ gfn_cache # {}

\* C7: the unmap notifier for the gfns g .. g+n-1 removes exactly the entries
\* of those gfns from both trees, whatever their refcount, with one host
\* unmap+unpin each, and leaves every other entry as it was.
C7_InvalidateRange ==
    [][last'.op = "invalidate" =>
       \A g \in GFNs, n \in 0..(MaxGfn + 1) :
         intel_vgpu_iommu_notifier(TRUE, g, n) =>
            LET gone == {e \in gfn_cache :
                            g <= objs[e].gfn /\ objs[e].gfn < g + n}
            IN /\ gfn_cache' = gfn_cache \ gone
               /\ dma_addr_cache' = dma_addr_cache \ gone
               /\ \A e \in ObjIds :
                     objs'[e] = IF e \in gone THEN Free ELSE objs[e]
               /\ \A x \in GFNs :
                     pinned'[x] = pinned[x]
                        - Cardinality({e \in gone : objs[e].gfn = x})
               /\ \A d \in DmaAddrs :
                     mapped'[d] = mapped[d]
                        - Cardinality({e \in gone : objs[e].dma_addr = d})
               /\ last'.calls = Cardinality(gone)]_vars

\* the notifier removed an entry with a refcount above 1 and left another
C7_Witness ==
    /\ last.op = "invalidate" /\ last.hit
    /\ gfn_cache # {}

\* C8: every iteration of gvt_cache_destroy that finds an entry releases
\* that entry once and takes it out of both trees; the iteration that finds
\* none makes no host call and leaves both trees empty; and the loop ends
\* unless a map adds an entry meanwhile.
C8_DestroyAll ==
    /\ [][(last'.op = "destroy" /\ gvt_cache_destroy_step) =>
            IF gfn_cache = {}
            THEN /\ destroy_pc' = "idle"
                 /\ last'.calls = 0
                 /\ gfn_cache' = {} /\ dma_addr_cache' = {}
                 /\ pinned' = pinned /\ mapped' = mapped /\ objs' = objs
            ELSE \E e \in gfn_cache :
                 /\ destroy_pc' = "loop"
                 /\ last'.calls = 1
                 /\ gfn_cache' = gfn_cache \ {e}
                 /\ dma_addr_cache' = dma_addr_cache \ {e}
                 /\ objs' = [objs EXCEPT ![e] = Free]
                 /\ pinned' = [pinned EXCEPT ![objs[e].gfn] = @ - 1]
                 /\ mapped' = [mapped EXCEPT ![objs[e].dma_addr] = @ - 1]]_vars
    /\ (destroy_pc = "loop")
          ~> (destroy_pc = "idle"
                \/ (last.op = "map" /\ last.ret = 0 /\ ~last.hit))

\* the teardown released an entry with a refcount above 1 and has more to go
C8_Witness ==
    /\ last.op = "destroy" /\ last.calls = 1 /\ last.hit
    /\ destroy_pc = "loop" /\ gfn_cache # {}

\* C9: two add calls for one gfn on a bound session make one install of the
\* write trap and leave one tracked entry, and no gfn is in the table twice.
C9_AddTwice ==
    /\ [](\A g \in GFNs : ptable[g] <= 1)
    /\ [][\A h \in Handles, g \in GFNs, a \in BOOLEAN :
            (/\ last.op = "add" /\ last.gfn = g /\ last.ret = 0 /\ ~last.hit
             /\ kvmgt_write_protect_add(h, g, a)
             /\ last'.ret = 0)
               => /\ last.calls + last'.calls = 1
                  /\ ptable'[g] = 1]_vars

\* C10: add for a gfn that no slot holds returns -EINVAL, installs no trap
\* and leaves the table as it was.
C10_AddUnresolved ==
    [][\A h \in Handles, g \in GFNs, a \in BOOLEAN :
         (/\ handle_valid(h)
          /\ \A sl \in memslots : g \notin SlotGfns(sl)
          /\ kvmgt_write_protect_add(h, g, a))
            => /\ last'.ret = -EINVAL
               /\ last'.calls = 0
               /\ ptable' = ptable /\ gfn_track' = gfn_track]_vars

\* add failed on an unresolved gfn while another gfn is tracked
C10_Witness ==
    /\ last.op = "add" /\ last.ret = -EINVAL /\ handle_valid(last.handle)
    /\ \E g \in GFNs : ptable[g] > 0

\* C11: a remove of a gfn that is not tracked, the gfn in a slot or not,
\* returns 0, makes no host call and changes nothing; a remove takes the
\* write trap off only if the gfn was tracked.
C11_RemoveUntracked ==
    [][last'.op = "remove" =>
       \A h \in Handles, g \in GFNs :
          kvmgt_write_protect_remove(h, g) =>
             /\ ptable[g] = 0 =>
                   /\ last'.ret = 0
                   /\ last'.calls = 0
                   /\ ptable' = ptable /\ gfn_track' = gfn_track
             /\ last'.calls > 0 => ptable[g] > 0]_vars

\* C12: flush_slot takes every tracked gfn of the slot out of the table with
\* one removal of the write trap each, and leaves the gfns outside the slot
\* and the traps of untracked gfns as they were.
C12_FlushSlot ==
    [][last'.op = "flush" =>
       \A sl \in memslots :
          kvmgt_page_track_flush_slot(sl) =>
             LET gone == {g \in SlotGfns(sl) : ptable[g] > 0}
             IN /\ \A g \in GFNs :
                     /\ ptable'[g] = IF g \in SlotGfns(sl) THEN 0
                                     ELSE ptable[g]
                     /\ gfn_track'[g] = IF g \in gone THEN gfn_track[g] - 1
                                        ELSE gfn_track[g]
                /\ last'.calls = Cardinality(gone)]_vars

\* a flush removed a tracked gfn and a gfn outside the slot is still tracked
C12_Witness ==
    /\ last.op = "flush" /\ last.hit /\ last.calls >= 1
    /\ \E g \in GFNs : ptable[g] > 0

\* C13: a write fault is forwarded to the write-protect handler exactly if
\* the gfn is tracked, and leaves the table and the traps as they were.
C13_WriteFault ==
    [][last'.op = "write" =>
       \A g \in GFNs :
          kvmgt_page_track_write(g) =>
             /\ last'.calls = (IF ptable[g] > 0 THEN 1 ELSE 0)
             /\ ptable' = ptable /\ gfn_track' = gfn_track]_vars

\* the fault on a tracked gfn was forwarded and the gfn is still tracked
C13_Witness ==
    /\ last.op = "write" /\ last.calls = 1
    /\ last.gfn \in GFNs /\ ptable[last.gfn] > 0

\* C14: map, add and remove each return, with a handle that is not valid,
\* a result different from the one they return with a valid handle for a
\* gfn that cannot be pinned (map) or is in no slot (add, remove).
C14_UnboundDistinct ==
    [][(/\ last.op \in {"map", "add", "remove"}
        /\ last'.op = last.op
        /\ ~handle_valid(last.handle)
        /\ handle_valid(last'.handle)
        /\ IF last'.op = "map"
           THEN ~last'.hit /\ last'.ret # 0 /\ last'.dma_addr = None
           ELSE gfn_to_memslot(last'.gfn) = {})
          => last'.ret # last.ret]_vars

\* the steps of __intel_vgpu_release after the guard was taken
PastGuard == {"deactivate", "regions", "unregister", "guest_exit", "destroy"}

\* C15: when the close of the device file and the release work run
\* concurrently on an active device, every release hook (deactivation, the
\* release of each region and of the region array, the two notifier
\* unregistrations, the destruction of the protection table and of the
\* cache) runs exactly once for the session, and the path that finds the
\* guard set returns without running any of them.
C15_ReleaseOnce ==
    /\ [](\A h \in HookNames : hooks[h] <= 1)
    /\ [](~(rel["close"] \in PastGuard /\ rel["work"] \in PastGuard))
    /\ [][\A t \in Releasers :
            (release_cmpxchg(t) /\ vdev.released # 0)
                => /\ rel'[t] = "idle"
                   /\ hooks' = hooks
                   /\ vdev' = vdev
                   /\ active' = active
                   /\ info' = info
                   /\ vgpu_handle' = vgpu_handle
                   /\ UNCHANGED <<cache_vars, pt_vars>>]_vars
    /\ [][\A t \in Releasers :
            release_regions(t)
                => /\ hooks'["kfree_region"] = 1
                   /\ hooks'["vgpu_deactivate"] = 1
                   /\ \A i \in 1..vdev.num_regions :
                         hooks'["release_" \o vdev.region[i].ops] = 1]_vars
    /\ [][\A t \in Releasers :
            release_finish(t)
                => \A h \in {"vgpu_deactivate", "kfree_region",
                             "unregister_iommu", "unregister_group",
                             "protect_table_destroy", "gvt_cache_destroy"} :
                       hooks'[h] = 1]_vars

\* the close has run every hook while the release work, started on the
\* same session, is about to test the guard
C15_Witness ==
    /\ rel["work"] = "cmpxchg"
    /\ rel["close"] = "destroy"
    /\ vdev.released = 1
    /\ hooks["release_opregion"] = 1
    /\ hooks["release_device_state"] = 1
    /\ hooks["gvt_cache_destroy"] = 1

\* C16: once the release of a device has completed (the guard is set and
\* the handle is cleared), a later intel_vgpu_open of the same device
\* does not succeed and leaves it without a session.
C16_NoReopen ==
    [][(last'.op = "open" /\ rel' = rel /\ rw' = rw
            /\ vdev.released = 1 /\ ~handle_valid(vgpu_handle)) =>
        \A iommu_ret \in {0, -EINVAL}, group_ret \in {0, -EINVAL},
           same_mm \in BOOLEAN, alloc \in BOOLEAN,
           opregion \in OpregionStates, migration \in BOOLEAN :
            intel_vgpu_open(iommu_ret, group_ret, same_mm, alloc,
                            opregion, migration)
                => /\ last'.ret # 0
                   /\ ~handle_valid(vgpu_handle')
                   /\ ~active']_vars

C18_NoRwDuringRelease ==
    (\E t \in Releasers : rel[t] \in PastGuard) => rw.pc # "handler"

\* C19: a read or write that intel_vgpu_rw hands to the handler of a
\* registered region with an offset at or past the size of the region
\* returns an error (-EINVAL), reads and writes no byte of the payload of
\* the region and makes no call into the device model.
C19_OffsetPastEnd ==
    [][(/\ rw.pc = "handler"
        /\ rw'.pc = "idle"
        /\ rw.index < VFIO_PCI_NUM_REGIONS + vdev.num_regions
        /\ rw.pos >= vdev.region[rw.index - VFIO_PCI_NUM_REGIONS + 1].size)
            => /\ rw'.ret = -EINVAL
               /\ rw'.lo = rw'.hi
               /\ rw'.calls = 0
               /\ active' = active]_vars

\* a read of the opregion at the offset just past its last byte has
\* returned
C19_Witness ==
    /\ rw.pc = "idle"
    /\ rw.region = "opregion"
    /\ ~rw.is_write
    /\ rw.pos = MaxRegionSize
    /\ rw.count > 0
    /\ rw.ret = -EINVAL

\* C20: a read or write handed to the handler of a registered region with
\* an offset inside the region and offset + count past its size fails
\* with -EINVAL and reads and writes no byte, neither of the payload nor
\* past it.
C20_LengthPastEnd ==
    [][(/\ rw.pc = "handler"
        /\ rw'.pc = "idle"
        /\ rw.index < VFIO_PCI_NUM_REGIONS + vdev.num_regions
        /\ rw.pos < vdev.region[rw.index - VFIO_PCI_NUM_REGIONS + 1].size
        /\ rw.pos + rw.count
             > vdev.region[rw.index - VFIO_PCI_NUM_REGIONS + 1].size)
            => /\ rw'.ret = -EINVAL
               /\ rw'.lo = rw'.hi]_vars

\* the control byte of the device-state region of v, "none" without one
ControlByte(v) ==
    LET S == {i \in 1..v.num_regions : v.region[i].ops = "device_state"}
    IN IF S = {} THEN "none" ELSE v.region[CHOOSE i \in S : TRUE].data

\* C21: a one-byte write at offset 0 of the device-state region whose
\* byte arrives from the caller returns 1 for VFIO_DEVICE_START, activates
\* the vGPU and stores the byte; returns 1 for VFIO_DEVICE_STOP,
\* deactivates the vGPU and stores the byte; and for any other value
\* returns an error, calls neither vgpu_activate nor vgpu_deactivate and
\* leaves the stored byte as it was.
C21_ControlByte ==
    [][(/\ rw.pc = "handler"
        /\ rw'.pc = "idle"
        /\ rw.region = "device_state"
        /\ rw.is_write
        /\ rw.pos = 0
        /\ rw.count = 1
        /\ rw.index < VFIO_PCI_NUM_REGIONS + vdev.num_regions)
            => \A user \in UserOutcomes :
                 (user.copy_ok /\ rw_handler(user))
                    => /\ user.state = "start"
                          => /\ rw'.ret = 1
                             /\ active'
                             /\ ControlByte(vdev') = "start"
                       /\ user.state = "stop"
                          => /\ rw'.ret = 1
                             /\ ~active'
                             /\ ControlByte(vdev') = "stop"
                       /\ user.state = "other"
                          => /\ rw'.ret < 0
                             /\ rw'.calls = 0
                             /\ active' = active
                             /\ ControlByte(vdev') = ControlByte(vdev)]_vars

\* Start and then Stop were written and a third write of the control byte
\* has failed: the device is inactive and the byte is still Stop
C21_Witness ==
    /\ rw.pc = "idle"
    /\ rw.region = "device_state"
    /\ rw.is_write
    /\ rw.pos = 0
    /\ rw.count = 1
    /\ rw.ret = -EFAULT
    /\ ControlByte(vdev) = "stop"
    /\ ~active

\* the bytes of the chunks before the k-th
RECURSIVE BytesBefore(_, _)
BytesBefore(chunks, k) ==
    IF k <= 1 THEN 0 ELSE BytesBefore(chunks, k - 1) + chunks[k - 1].size

\* C22: a read or write of count bytes at offset pos of the config space
\* or of BAR0 is made in consecutive chunks, each the largest of 4, 2 and
\* 1 bytes that is no more than the bytes left and divides the offset it
\* starts at; when every chunk succeeds the chunks add up to count and
\* count is returned.
C22_GreedyChunks ==
    (/\ io.op \in {"read", "write"}
     /\ io.index \in {VFIO_PCI_CONFIG_REGION_INDEX,
                      VFIO_PCI_BAR0_REGION_INDEX})
        => /\ \A k \in 1..Len(io.chunks) :
                LET c == io.chunks[k]
                    before == BytesBefore(io.chunks, k)
                    left == io.count - before
                IN /\ c.pos = io.pos + before
                   /\ c.size \in {4, 2, 1}
                   /\ c.size <= left
                   /\ c.pos % c.size = 0
                   /\ \A s \in {4, 2, 1} :
                         (s <= left /\ c.pos % s = 0) => s <= c.size
           /\ (\A k \in 1..Len(io.chunks) : io.chunks[k].ok)
                => /\ io.ret = io.count
                   /\ BytesBefore(io.chunks, Len(io.chunks) + 1) = io.count

\* four bytes read at offset 3 of the config space in chunks of 1, 2 and 1
\* bytes at the offsets 3, 4 and 6
C22_Witness ==
    /\ io.op = "read"
    /\ io.index = VFIO_PCI_CONFIG_REGION_INDEX
    /\ io.pos = 3
    /\ io.count = 4
    /\ io.ret = 4
    /\ Len(io.chunks) = 3
    /\ <<io.chunks[1].pos, io.chunks[1].size>> = <<3, 1>>
    /\ <<io.chunks[2].pos, io.chunks[2].size>> = <<4, 2>>
    /\ <<io.chunks[3].pos, io.chunks[3].size>> = <<6, 1>>

\* C23: when a chunk of a chunked read or write fails after earlier chunks
\* succeeded, no further chunk is attempted and the call returns the short
\* count, the bytes of the chunks that succeeded.
C23_ShortCount ==
    (/\ io.op \in {"read", "write"}
     /\ Len(io.chunks) > 1
     /\ ~io.chunks[Len(io.chunks)].ok)
        => /\ \A k \in 1..(Len(io.chunks) - 1) : io.chunks[k].ok
           /\ io.ppos = io.pos + BytesBefore(io.chunks, Len(io.chunks))
           /\ io.ret = BytesBefore(io.chunks, Len(io.chunks))

\* C24: a read or write whose index (*ppos >> 40) is neither a fixed
\* index nor that of a registered region (index >= VFIO_PCI_NUM_REGIONS +
\* num_regions) returns -EINVAL and no config, MMIO or region handler is
\* called for it.
C24_InvalidIndex ==
    [][(rw.pc = "idle" /\ rw'.index # None /\ vdev' = vdev) =>
        \A index \in VFIO_PCI_NUM_REGIONS..(VFIO_PCI_NUM_REGIONS + 2),
           pos \in 0..(MaxRegionSize + 1),
           count \in 0..(MaxRegionSize + 1), is_write \in BOOLEAN :
            (/\ index >= VFIO_PCI_NUM_REGIONS + vdev.num_regions
             /\ rw_enter(index, pos, count, is_write))
                => /\ rw'.ret = -EINVAL
                   /\ rw'.pc = "idle"
                   /\ rw'.region = "none"
                   /\ rw'.calls = 0
                   /\ rw'.lo = rw'.hi
                   /\ active' = active]_vars

\* a call with the first index past the two registered regions has
\* returned
C24_Witness ==
    /\ vdev.num_regions = 2
    /\ rw.pc = "idle"
    /\ rw.index = VFIO_PCI_NUM_REGIONS + 2
    /\ rw.ret = -EINVAL

\* C25: a read or write of one or more bytes addressed to BAR1 .. BAR5,
\* to the VGA region or to the ROM fails, calls no emulation handler and
\* changes nothing: neither the vGPU nor the file offset.
C25_StubRegions ==
    [][(/\ io' # io
        /\ io'.op \in {"read", "write"}
        /\ io'.index \in StubRegions
        /\ io'.count > 0)
            => /\ io'.ret < 0
               /\ \A k \in 1..Len(io'.chunks) :
                     io'.chunks[k].handler = "none"
               /\ io'.ppos = io'.pos
               /\ UNCHANGED <<cache_vars, pt_vars, vgpu_handle, vdev, info,
                              active, rw>>]_vars

\* a write of four bytes to BAR2 has failed at its first chunk
C25_Witness ==
    /\ io.op = "write"
    /\ io.index = 2
    /\ io.count = 4
    /\ io.pos = 0
    /\ io.ret = -EFAULT
    /\ Len(io.chunks) = 1
    /\ io.chunks[1].size = 4

\* C26 as stated: the k-th registered region answers to the index
\* VFIO_PCI_NUM_REGIONS + k, and a successful region-info query for that
\* index reports offset = index << 40 and exactly the size, flags, type
\* and subtype given at registration; a query for an index past the
\* registered ones fails.
C26_RegionInfoExact ==
    (io.op = "region_info" /\ io.index >= VFIO_PCI_NUM_REGIONS)
        => IF io.index >= VFIO_PCI_NUM_REGIONS + vdev.num_regions
           THEN io.ret # 0
           ELSE io.ret = 0
                => LET r == vdev.region[io.index - VFIO_PCI_NUM_REGIONS + 1]
                   IN /\ io.info.offset = [index |-> io.index, pos |-> 0]
                      /\ io.info.size = r.size
                      /\ io.info.flags = r.flags
                      /\ io.info.type = r.type
                      /\ io.info.subtype = r.subtype

\* C26 as amended: the reported flags are those given at registration
\* with the capability flag added, and the type and subtype are reported
\* when the caller's argsz has room for the capability.
C26_RegionInfo ==
    (io.op = "region_info" /\ io.index >= VFIO_PCI_NUM_REGIONS)
        => IF io.index >= VFIO_PCI_NUM_REGIONS + vdev.num_regions
           THEN io.ret # 0
           ELSE io.ret = 0
                => LET r == vdev.region[io.index - VFIO_PCI_NUM_REGIONS + 1]
                   IN /\ io.info.offset = [index |-> io.index, pos |-> 0]
                      /\ io.info.size = r.size
                      /\ io.info.flags = r.flags \cup {"CAPS"}
                      /\ io.argsz = "caps"
                            => /\ io.info.type = r.type
                               /\ io.info.subtype = r.subtype

\* the info of the second of two registered regions, the device state,
\* was queried with room for the capability
C26_Witness ==
    /\ vdev.num_regions = 2
    /\ io.op = "region_info"
    /\ io.index = VFIO_PCI_NUM_REGIONS + 1
    /\ io.argsz = "caps"
    /\ io.ret = 0
    /\ io.info.subtype = "device_state"
    /\ io.info.flags = {"READ", "WRITE", "CAPS"}

\* C27: VFIO_DEVICE_SET_IRQS accepts (returns 0 for) each of the actions
\* mask, unmask and trigger on the INTx and on the MSI index, and a
\* trigger on the MSI index with an eventfd binds that eventfd context as
\* vdev.msi_trigger, the one kvmgt_inject_msi signals.
C27_SetIrqs ==
    /\ (/\ io.op = "set_irqs"
        /\ io.index \in {VFIO_PCI_INTX_IRQ_INDEX, VFIO_PCI_MSI_IRQ_INDEX}
        /\ io.data = "eventfd" => io.trigger # NULL)
           => /\ io.ret = 0
              /\ (/\ io.index = VFIO_PCI_MSI_IRQ_INDEX
                  /\ io.action = "trigger"
                  /\ io.data = "eventfd")
                    => vdev.msi_trigger = io.trigger
    /\ (io.op = "inject_msi" /\ io.ret = 0)
           => io.trigger = vdev.msi_trigger

\* the indexes of the registered regions that expose the opregion
OpregionRegions(v) ==
    {i \in 1..v.num_regions : v.region[i].subtype = "igd_opregion"}

\* C28: the opregion region is read-only: every write to it fails with
\* -EINVAL, copies nothing and leaves the payload unchanged.  A successful
\* open registers it, with flag READ only, exactly when the first 16 bytes
\* of the payload equal OPREGION_SIGNATURE; with a payload that is not
\* mapped or does not match, no opregion region is registered and the
\* region count is what it would be without the opregion.
C28_OpregionReadOnly ==
    [][/\ (/\ rw.pc = "handler"
           /\ rw'.pc = "idle"
           /\ rw.region = "opregion"
           /\ rw.is_write
           /\ rw.index < VFIO_PCI_NUM_REGIONS + vdev.num_regions)
              => /\ rw'.ret = -EINVAL
                 /\ rw'.lo = rw'.hi
                 /\ vdev' = vdev
       /\ (last'.op = "open" /\ last'.ret = 0 /\ fds' = fds + 1)
              => \A opregion \in OpregionStates, migration \in BOOLEAN :
                   intel_vgpu_open(0, 0, TRUE, TRUE, opregion, migration)
                     => IF opregion = "signed"
                        THEN /\ OpregionRegions(vdev') = {1}
                             /\ vdev'.region[1].flags = {"READ"}
                             /\ vdev'.region[1].data = "signed"
                             /\ vdev'.num_regions = vdev.num_regions + 1
                                    + (IF migration THEN 1 ELSE 0)
                        ELSE /\ OpregionRegions(vdev') = {}
                             /\ vdev'.num_regions = vdev.num_regions
                                    + (IF migration THEN 1 ELSE 0)]_vars

\* a write of the first byte of a registered opregion has been refused
C28_Witness ==
    /\ rw.pc = "idle"
    /\ rw.region = "opregion"
    /\ rw.is_write
    /\ rw.pos = 0
    /\ rw.count = 1
    /\ rw.ret = -EINVAL
    /\ OpregionRegions(vdev) = {1}
    /\ vdev.region[1].data = "signed"

\* the last n entries of the sequence s
LastN(s, n) == SubSeq(s, Len(s) - n + 1, Len(s))

\* C29: __intel_vgpu_release does its steps in this order: vgpu_deactivate;
\* the release of every registered region, once each and in registration
\* order, followed by the freeing and clearing of the region array; the
\* two vfio_unregister_notifier calls; kvmgt_protect_table_destroy and
\* gvt_cache_destroy; and only after all of them the handle is cleared.
C29_TeardownOrder ==
    [][/\ (\E t \in Releasers :
              rel[t] = "regions" /\ rel'[t] = "unregister")
          => /\ order = <<"vgpu_deactivate">>
             /\ order' = order
                    \o [i \in 1..vdev.num_regions |->
                            "release_" \o vdev.region[i].ops]
                    \o <<"kfree_region">>
             /\ vdev'.num_regions = 0
             /\ vdev'.region = <<>>
             /\ vgpu_handle' = vgpu_handle
       /\ (\E t \in Releasers :
              rel[t] = "unregister" /\ rel'[t] = "guest_exit")
          => /\ LastN(order, 1) = <<"kfree_region">>
             /\ order' = order \o <<"unregister_iommu", "unregister_group">>
             /\ ptable' = ptable
             /\ gfn_cache' = gfn_cache
             /\ vgpu_handle' = vgpu_handle
       /\ (\E t \in Releasers :
              rel[t] = "guest_exit" /\ rel'[t] = "destroy")
          => /\ LastN(order, 1) = <<"unregister_group">>
             /\ order' = order
                    \o <<"protect_table_destroy", "gvt_cache_destroy">>
             /\ vgpu_handle' = vgpu_handle
       /\ (vgpu_handle # 0 /\ vgpu_handle' = 0)
          => /\ Len(order) >= 6
             /\ order[1] = "vgpu_deactivate"
             /\ \A i \in 2..(Len(order) - 5) :
                   order[i] \in {"release_opregion", "release_device_state"}
             /\ \A i, j \in 2..(Len(order) - 5) :
                   order[i] = order[j] => i = j
             /\ LastN(order, 5) =
                    <<"kfree_region", "unregister_iommu", "unregister_group",
                      "protect_table_destroy", "gvt_cache_destroy">>
             /\ vdev.num_regions = 0
             /\ gfn_cache = {}
             /\ \A g \in GFNs : ptable[g] = 0]_vars

\* a session with both regions and a protected page has been torn down
C29_Witness ==
    /\ vgpu_handle = 0
    /\ order = <<"vgpu_deactivate", "release_opregion",
                 "release_device_state", "kfree_region", "unregister_iommu",
                 "unregister_group", "protect_table_destroy",
                 "gvt_cache_destroy">>
    /\ hooks["gvt_cache_destroy"] = 1
    /\ \A t \in Releasers : rel[t] = "idle"
    /\ gfn_track[0] > 0

\* the device after a teardown: no binding, no regions, nothing cached and
\* nothing write-protected
Released ==
    /\ vgpu_handle = 0
    /\ info = NoInfo
    /\ vdev.kvm = NULL
    /\ vdev.num_regions = 0
    /\ gfn_cache = {}
    /\ dma_addr_cache = {}
    /\ \A g \in GFNs : ptable[g] = 0

\* C30: a caller of __intel_vgpu_release that has taken the guard
\* vdev.released always runs to the end and leaves the device Released,
\* also when one or both vfio_unregister_notifier calls fail.
C30_TeardownCompletes ==
    \A t \in Releasers :
        (rel[t] \in PastGuard) ~> (rel[t] = "idle" /\ Released)

\* a session with a protected page is Released, its cache destroyed,
\* although both unregistrations have failed: both notifiers are still
\* registered
C30_Witness ==
    /\ Released
    /\ \A t \in Releasers : rel[t] = "idle"
    /\ hooks["unregister_iommu"] = 1
    /\ hooks["unregister_group"] = 1
    /\ hooks["gvt_cache_destroy"] = 1
    /\ vdev.iommu_notifier = 1
    /\ vdev.group_notifier = 1
    /\ gfn_track[0] > 0
    /\ last.op = "destroy"


\* C33: once the teardown of a session is complete no page of the guest
\* is still write-tracked by the host on behalf of that session: every
\* gfn the session had added has had its kvm_slot_page_track_add_page
\* undone.
C33_NoTrapAfterTeardown ==
    (/\ Released
     /\ hooks["protect_table_destroy"] = 1
     /\ \A t \in Releasers : rel[t] = "idle")
        => \A g \in GFNs : gfn_track[g] = 0


\* the bytes of the payload of the region a finished call was for that
\* the call copied
CopiedFromPayload ==
    LET size == vdev.region[rw.index - VFIO_PCI_NUM_REGIONS + 1].size
        hi == Min(rw.hi, size)
    IN IF hi > rw.lo THEN hi - rw.lo ELSE 0

\* C37: a read of a registered region never returns a byte count larger
\* than the number of bytes it copied from the payload of the region, also
\* when the read of the opregion runs past the end of the region.
C37_ReadCount ==
    (/\ rw.pc = "idle"
     /\ rw.region # "none"
     /\ ~rw.is_write
     /\ rw.index < VFIO_PCI_NUM_REGIONS + vdev.num_regions
     /\ rw.ret > 0)
        => rw.ret <= CopiedFromPayload


\* the entries of the cache that are the mapping the user u holds
EntriesHeld(u) ==
    {e \in gfn_cache : /\ objs[e].gfn = held[u].gfn
                       /\ objs[e].dma_addr = held[u].dma_addr}

\* C36: an unmap by a user whose mapping the iommu notifier had already
\* removed leaves alone every mapping another user got from a later map
\* and still holds: its entry stays in both trees with the same reference
\* count and the host mapping and pin stay, also when the later map was
\* given the same dma address.
C36_LateUnmap ==
    [][\A u \in Users :
         (held[u].state = "stale" /\ UserUnmap(u))
            => \A v \in Users \ {u} :
                 (held[v].state = "mapped" /\ held[v].after)
                    => /\ \A e \in EntriesHeld(v) :
                            /\ e \in gfn_cache'
                            /\ e \in dma_addr_cache'
                            /\ objs'[e] = objs[e]
                       /\ mapped'[held[v].dma_addr]
                            = mapped[held[v].dma_addr]
                       /\ pinned'[held[v].gfn] = pinned[held[v].gfn]]_vars


\* the steps of a cache operation between its mutex_lock and its
\* mutex_unlock
InCacheSection ==
    {"find", "add_gfn", "add_dma", "erase_gfn", "erase_dma", "unlock"}

\* C31: map, unmap, the notifier's range removal and every iteration of
\* gvt_cache_destroy run between mutex_lock and mutex_unlock of
\* vdev.cache_lock: at most one thread is between the two, it is the
\* holder of the mutex, and whenever a thread looks into the cache the
\* two trees hold the same entries.
C31_CacheLock ==
    /\ \A t, u \in CacheThreads :
          (cop[t].pc \in InCacheSection /\ cop[u].pc \in InCacheSection)
             => t = u
    /\ \A t \in CacheThreads :
          cop[t].pc \in InCacheSection => cache_lock = t
    /\ \A t \in CacheThreads :
          cop[t].pc = "find" => gfn_cache = dma_addr_cache

\* one thread is between the two insertions of __gvt_cache_add, the entry
\* in one tree only, while the other waits for the mutex to unmap
C31_Witness ==
    /\ cop["t1"].pc = "add_dma"
    /\ gfn_cache # dma_addr_cache
    /\ cop["t2"].pc = "lock"
    /\ cop["t2"].op = "unmap"


\* C32: kvmgt_write_protect_add and kvmgt_write_protect_remove take the
\* srcu read lock of the kvm before its mmu_lock and give them back in the
\* reverse order on every path, so a call that has returned holds neither;
\* the table is changed by add, remove and flush_slot only by the thread
\* that holds mmu_lock; and no thread takes the srcu read lock while it
\* holds mmu_lock.
C32_LockOrder ==
    [][/\ \A t \in TableThreads :
            /\ pop'[t].op \in {"add", "remove"}
                  => pop'[t].locks \in {<<>>, <<"srcu">>,
                                        <<"srcu", "mmu_lock">>}
            /\ pop'[t].op = "flush"
                  => pop'[t].locks \in {<<>>, <<"mmu_lock">>}
            /\ pop'[t].pc = "idle" => pop'[t].locks = <<>>
            /\ (pop'[t].locks # <<>> /\ pop'[t].locks[Len(pop'[t].locks)]
                                          = "mmu_lock")
                  <=> mmu_lock' = t
       /\ (ptable' # ptable \/ gfn_track' # gfn_track)
            => \E t \in TableThreads :
                  /\ mmu_lock = t
                  /\ pop[t].pc = "body"
                  /\ pop'[t].pc = "spin_unlock"
                  /\ \A u \in TableThreads \ {t} : pop'[u] = pop[u]]_vars

\* one thread has added a gfn and holds both locks while the other, which
\* found no slot for its gfn, is about to give back the srcu read lock alone
C32_Witness ==
    /\ pop["p1"].op = "add"
    /\ pop["p1"].pc = "spin_unlock"
    /\ pop["p1"].locks = <<"srcu", "mmu_lock">>
    /\ ptable[pop["p1"].gfn] = 1
    /\ pop["p2"].op = "remove"
    /\ pop["p2"].pc = "srcu_read_unlock"
    /\ pop["p2"].ret = -EINVAL
    /\ pop["p2"].locks = <<"srcu">>


\* C34: when intel_vgpu_open returns 0 the vGPU is bound and active: its
\* handle is valid, vdev.released is 0 and the regions the open registered
\* are registered, also when the release work runs while the open is
\* between the registration of the group notifier and its return.
C34_OpenedIsBound ==
    [][(opn["self"].pc = "set_released" /\ opn'["self"].returned
        /\ opn'["self"].ret = 0)
          => /\ handle_valid(vgpu_handle')
             /\ vdev'.released = 0
             /\ active'
             /\ vdev'.num_regions >= opn["self"].regs]_vars

\* C35: no two vGPUs are bound to the same kvm at any time, also when
\* they are opened at the same time.
C35_OneVgpuPerKvm ==
    ~(/\ handle_valid(vgpu_handle)
      /\ opn["other"].bound
      /\ info.kvm = opn["other"].kvm)

====
